---- MODULE Spec2Model ----
(***************************************************************************)
(* Browser-driven action workflows of acwea904/action-copy:                *)
(*   scripts/Billing-Kerit_renew.py  (renewal loop, outcome classifier)    *)
(*   scripts/data-online_renew.py    (terminal command after login)        *)
(*   scripts/panel-na1_renew.py      (restart of every server)             *)
(* Page text is a sequence of words; a phrase is a sequence of words and   *)
(* "text includes phrase" is containment of the phrase's words in order.   *)
(***************************************************************************)
EXTENDS Integers, Sequences, FiniteSets, TLC

VARIABLES
    \* ---- check_renewal_result (Billing-Kerit) and the page it reads ----
    cr_pc,              \* "start" | "done"
    api_raises,         \* execute_script in get_api_responses raises
    renewApiResponses,  \* window._renewApiResponses
    page_raises,        \* the page-message script raises
    bodyText,           \* document.body.innerText
    toasts,             \* textContent of the toast elements, in document order
    cr_result,          \* the dict check_renewal_result returns
    \* ---- Billing-Kerit main() ----
    kpc,                \* position in main()
    poll_i,             \* i of the challenge wait loop
    interception_ready, \* window.fetch / XMLHttpRequest are patched
    renewal_round,      \* loop variable of the renewal loop, 0 before it
    total_renewed,
    last_answer,        \* the /api/renew answer to this round's confirm: <<>> or <<entry>>
    round_evidence,     \* this round showed a 200/ok answer or a success phrase
    every_round_clear,  \* no round so far met a stop condition, a skip or an exception
    trigger_clicks,     \* clicks on renewServerBtn
    confirm_submits,    \* clicks on renewBtn plus submits of the modal form
    notifications,      \* calls of notify_telegram: <<[success, title], ...>>
    secret_updates,     \* calls of update_github_secret
    exit_code,          \* process exit status, -1 while running
    session_url,        \* current_url read on the session page, <<>> when not in use
    trigger_missing,    \* the renewServerBtn check of step 6 found no button
    fatal_observed,     \* a checkpoint reported a page error, a block or a lost login
    k_captured,         \* important_cookies of the save_cookies_for_update call
    turnstile_cleared,  \* what handle_turnstile returned in this round, "none" outside
    modal_open,         \* renewalModal was seen open and the close step has not run since
    ad_left,            \* windows the ad click of this round opened that are still open
    focus,              \* the window the driver is switched to: "main" | "ad"
    ceiling_shown,      \* the page shows 7 days or more of remaining time
    stop_reason,        \* why the loop was left, "none" before
    \* ---- data-online main() ----
    dpc,                \* position in main()
    d_i,                \* counter of the current bounded loop
    page_ready,         \* what wait_for_page_ready returned
    final_status,       \* "failed" | "success" | "disabled" | "wrong_password"
    error_message,      \* "none" is None
    command_typed,      \* page.keyboard.type(command) completed
    enter_pressed,      \* page.keyboard.press('Enter') completed
    tg_configured,      \* TG_BOT_TOKEN and TG_CHAT_ID are set
    d_notified,         \* status values passed to send_telegram_notification
    d_exit,             \* process exit status, -1 while running
    \* ---- Panel-NA1 main() ----
    npc,                \* position in main()
    api_servers,        \* the target list filled by handle_response
    n_idx,              \* idx of enumerate(servers)
    results,            \* one line per processed server
    success_count,
    fail_count,
    n_notifications,    \* calls of notify_telegram
    n_secret_updates,   \* calls of update_github_secret
    n_clicks,           \* positions in the list of the servers whose Restart or Start was clicked
    n_started,          \* chromium.launch returned a browser
    n_contexts,         \* calls of browser.new_context() that returned
    n_visited,          \* for each server page opened: the context it was opened in
    api_captured,       \* the flag handle_response sets after a response it processed
    n_pending,          \* responses of the page not yet passed to handle_response
    n_login_url,        \* page.url at the login check held /auth/login
    n_captured,         \* filtered of the save_cookies_for_update call
    n_exit,             \* process exit status, -1 while running
    \* ---- nodeloc main() ----
    lpc,                \* position in main() / process_account()
    accounts,           \* what parse_accounts returned
    l_idx,              \* idx of enumerate(accounts, 1)
    l_result,           \* the line process_account is about to return, <<>> before
    l_results,          \* results of main()
    l_success,          \* success_count of main()
    l_fail,             \* fail_count of main()
    l_live,             \* browser sessions created and not yet quit
    l_clicks,           \* idx of the accounts whose check-in button was clicked
    l_notified,         \* calls of send_telegram_notification
    l_exit,             \* process exit status, -1 while running
    \* ---- the cookie functions ----
    ck_pc,              \* "start" | "saved" | "parsed"
    ck_site,            \* "kerit" | "na1"
    ck_jar,             \* the cookies of the browser session
    ck_kept,            \* the cookies save_cookies_for_update serializes
    ck_string,          \* the string save_cookies_for_update returns
    ck_parsed,          \* what the parser makes of that string
    \* ---- handle_turnstile (Billing-Kerit) ----
    t_pc,               \* position in handle_turnstile
    t_max,              \* max_attempts
    attempt,            \* loop variable
    t_detections,       \* runs of the has_turnstile script
    t_clicks,           \* runs of the click script
    t_clicked,          \* the click script ran in the current attempt
    t_token,            \* the widget has written its response token
    t_rechecked,        \* the second is_checked script returned in the current attempt
    t_found,            \* an attempt found the challenge absent or passed
    t_return            \* "none" | "True" | "False"

crvars == <<cr_pc, api_raises, page_raises, toasts, cr_result>>

\* the page: shared by the classifier and by main()
pagevars == <<renewApiResponses, bodyText>>

kvars == <<kpc, poll_i, interception_ready, renewal_round, total_renewed, last_answer,
           round_evidence, every_round_clear, trigger_clicks, confirm_submits,
           notifications, secret_updates, exit_code,
           session_url, trigger_missing, fatal_observed, k_captured,
           turnstile_cleared, modal_open, ad_left, focus, ceiling_shown, stop_reason>>

dvars == <<dpc, d_i, page_ready, final_status, error_message, command_typed,
           enter_pressed, tg_configured, d_notified, d_exit>>

nvars == <<npc, api_servers, n_idx, results, success_count, fail_count,
           n_notifications, n_secret_updates, n_clicks, n_started, n_contexts, n_visited, api_captured, n_pending,
           n_login_url, n_captured, n_exit>>

lvars == <<lpc, accounts, l_idx, l_result, l_results, l_success, l_fail, l_live,
           l_clicks, l_notified, l_exit>>

cvars == <<ck_pc, ck_site, ck_jar, ck_kept, ck_string, ck_parsed>>

tvars == <<t_pc, t_max, attempt, t_detections, t_clicks, t_clicked, t_token, t_rechecked,
          t_found, t_return>>

vars == <<crvars, pagevars, kvars, dvars, nvars, lvars, cvars, tvars>>

-----------------------------------------------------------------------------
(* Bounds of the model *)

\* longest list of captured /api/renew responses
MaxResponses == 2

\* longest server list of a Panel-NA1 account
MaxServers == 3

\* longest account list of a nodeloc run
MaxAccounts == 2

\* most cookies of a browser session
MaxCookies == 2

\* longest cookie value that is enumerated in full
MaxValueLen == 1

\* most windows one click on the ad banner opens
MaxAdWindows == 1

\* most ';'-separated segments of a stored cookie string
MaxSegments == 3

\* largest max_attempts handle_turnstile is called with (its default is 6)
MaxAttempts == 6

-----------------------------------------------------------------------------
(* Text *)

\* str.lower() on one word of the vocabulary
LowerWord(w) ==
    CASE w = "Cannot"   -> "cannot"
      [] w = "Weekly"   -> "weekly"
      [] w = "Server"   -> "server"
      [] w = "Renewal"  -> "renewal"
      [] w = "Internal" -> "internal"
      [] w = "Exceeded" -> "exceeded"
      [] w = "SUCCESS"  -> "success"
      [] w = "Account"  -> "account"
      [] w = "Disabled" -> "disabled"
      [] w = "Wrong"    -> "wrong"
      [] w = "Password" -> "password"
      [] w = "Invalid"  -> "invalid"
      [] w = "Sign"     -> "sign"
      [] OTHER          -> w

\* str.lower()
Lower(text) == [i \in DOMAIN text |-> LowerWord(text[i])]

\* fragments that occur inside a longer word of the vocabulary
WordHas(w, frag) ==
    \/ w = frag
    \/ <<w, frag>> \in { <<"successfully", "success">>, <<"successful", "success">>,
                         <<"renewed", "renew">>, <<"renewals", "renew">>,
                         <<"renewal", "renew">>, <<"exceeded", "exceed">>,
                         <<"limits", "limit">> }

\* Python `phrase in text`, JavaScript text.includes(phrase)
Includes(text, phrase) ==
    IF Len(phrase) = 1
    THEN \E i \in DOMAIN text : WordHas(text[i], phrase[1])
    ELSE \E off \in 0..(Len(text) - Len(phrase)) :
            \A i \in 1..Len(phrase) : text[off + i] = phrase[i]

\* every sequence over S of length at most n
RECURSIVE SeqsUpTo(_, _)
SeqsUpTo(S, n) ==
    IF n = 0 THEN { <<>> }
    ELSE LET shorter == SeqsUpTo(S, n - 1)
         IN  shorter \cup { Append(q, x) : q \in { r \in shorter : Len(r) = n - 1 }, x \in S }

-----------------------------------------------------------------------------
(* Cookie strings: parse_cookies / save_cookies_for_update of Billing-Kerit, *)
(* parse_cookie_string / save_cookies_for_update of Panel-NA1.               *)
(* A string is a sequence of tokens: single characters, and cookie-name      *)
(* atoms such as "session_id" that hold no separator character. A cookie is  *)
(* [name |-> string, value |-> string].                                      *)

\* str.strip() from the left
RECURSIVE LStrip(_)
LStrip(s) == IF s # <<>> /\ Head(s) = " " THEN LStrip(Tail(s)) ELSE s

\* str.strip() from the right
RECURSIVE RStrip(_)
RStrip(s) == IF s # <<>> /\ s[Len(s)] = " " THEN RStrip(SubSeq(s, 1, Len(s) - 1)) ELSE s

\* str.strip()
Strip(s) == RStrip(LStrip(s))

\* str.index(ch), 0 when ch does not occur
RECURSIVE IndexFrom(_, _, _)
IndexFrom(s, ch, i) ==
    IF i > Len(s) THEN 0 ELSE IF s[i] = ch THEN i ELSE IndexFrom(s, ch, i + 1)

\* str.split(sep) for a one-character separator
RECURSIVE SplitOn(_, _)
SplitOn(s, sep) ==
    LET k == IndexFrom(s, sep, 1)
    IN  IF k = 0 THEN <<s>>
        ELSE <<SubSeq(s, 1, k - 1)>> \o SplitOn(SubSeq(s, k + 1, Len(s)), sep)

\* "; ".join(parts)
RECURSIVE JoinParts(_)
JoinParts(parts) ==
    IF parts = <<>> THEN <<>>
    ELSE IF Len(parts) = 1 THEN parts[1]
    ELSE parts[1] \o <<";", " ">> \o JoinParts(Tail(parts))

\* d[key] = value on a dict kept as the list of its items in insertion order
RECURSIVE DictSet(_, _, _)
DictSet(d, key, value) ==
    IF d = <<>> THEN << [name |-> key, value |-> value] >>
    ELSE IF Head(d).name = key THEN << [name |-> key, value |-> value] >> \o Tail(d)
    ELSE <<Head(d)>> \o DictSet(Tail(d), key, value)

\* f"{name}={value}" of every cookie
PairStrings(cookies) ==
    [i \in DOMAIN cookies |-> cookies[i].name \o <<"=">> \o cookies[i].value]

\* the names Billing-Kerit keeps
KeritImportant == { <<"session_id">>, <<"cf_clearance">> }

\* important_cookies of save_cookies_for_update (Billing-Kerit) after the first i cookies
RECURSIVE important_cookies(_, _)
important_cookies(cookies, i) ==
    IF i = 0 THEN <<>>
    ELSE LET d == important_cookies(cookies, i - 1)
         IN  IF cookies[i].name \in KeritImportant
             THEN DictSet(d, cookies[i].name, cookies[i].value)
             ELSE d

\* save_cookies_for_update(sb) of Billing-Kerit; <<>> is None
kerit_save_cookies_for_update(cookies, raises) ==
    IF raises THEN <<>>
    ELSE JoinParts(PairStrings(important_cookies(cookies, Len(cookies))))

\* the loop of parse_cookies over the first i parts: the dict `seen`
RECURSIVE parse_seen(_, _)
parse_seen(parts, i) ==
    IF i = 0 THEN <<>>
    ELSE LET seen == parse_seen(parts, i - 1)
             part == Strip(parts[i])
             k    == IndexFrom(part, "=", 1)
             key   == Strip(SubSeq(part, 1, k - 1))
             value == Strip(SubSeq(part, k + 1, Len(part)))
         IN  IF k # 0 /\ key # <<>> /\ value # <<>> THEN DictSet(seen, key, value) ELSE seen

\* parse_cookies(cookie_str) of Billing-Kerit
parse_cookies(cookie_str) ==
    IF cookie_str = <<>> THEN <<>>
    ELSE LET parts == SplitOn(cookie_str, ";") IN parse_seen(parts, Len(parts))

\* characters urllib.parse.quote(value, safe='') leaves alone
Unreserved == {"a", "b", "0", "2", "3", "5", "B", "D", "_", ".", "-", "~"}

\* percent-encoding of one character
QuoteChar(c) ==
    CASE c \in Unreserved -> <<c>>
      [] c = ";" -> <<"%", "3", "B">>
      [] c = "=" -> <<"%", "3", "D">>
      [] c = " " -> <<"%", "2", "0">>
      [] c = "%" -> <<"%", "2", "5">>
      [] OTHER   -> <<"%", "3", "F">>   \* "?"

\* variant: the value is written as it is
quote_nothing(value) == value

\* urllib.parse.quote(value, safe='')
RECURSIVE quote(_)
quote(value) == IF value = <<>> THEN <<>> ELSE QuoteChar(Head(value)) \o quote(Tail(value))

HexDigits == {"0", "2", "3", "5", "a", "b", "B", "D", "F"}

\* the character a %XX pair stands for; "?" is any character outside the alphabet
HexPair(h1, h2) ==
    CASE <<h1, h2>> = <<"3", "B">> -> ";"
      [] <<h1, h2>> = <<"3", "D">> -> "="
      [] <<h1, h2>> = <<"2", "0">> -> " "
      [] <<h1, h2>> = <<"2", "5">> -> "%"
      [] <<h1, h2>> = <<"3", "F">> -> "?"
      [] OTHER -> "?"

\* urllib.parse.unquote(value): a % that two hex digits do not follow stays
RECURSIVE unquote(_)
unquote(value) ==
    IF value = <<>> THEN <<>>
    ELSE IF Head(value) = "%" /\ Len(value) >= 3 /\ value[2] \in HexDigits /\ value[3] \in HexDigits
         THEN <<HexPair(value[2], value[3])>> \o unquote(SubSeq(value, 4, Len(value)))
         ELSE <<Head(value)>> \o unquote(Tail(value))

\* important_prefixes of save_cookies_for_update (Panel-NA1)
important_prefixes == {"remember_web", "XSRF-TOKEN", "pterodactyl_session", "cf_clearance"}

\* any(name.startswith(prefix) or name == prefix for prefix in important_prefixes)
ImportantName(name) == name # <<>> /\ name[1] \in important_prefixes

\* filtered of save_cookies_for_update (Panel-NA1)
filtered(cookies) == SelectSeq(cookies, LAMBDA c : ImportantName(c.name))

\* save_cookies_for_update(cookies) of Panel-NA1; <<>> is ""
panel_save_cookies_for_update(cookies) ==
    LET kept == filtered(cookies)
    IN  JoinParts([i \in DOMAIN kept |-> kept[i].name \o <<"=">> \o quote(kept[i].value)])

\* the loop of parse_cookie_string over the first i items
RECURSIVE parse_items(_, _)
parse_items(items, i) ==
    IF i = 0 THEN <<>>
    ELSE LET item == Strip(items[i])
             eq_index == IndexFrom(item, "=", 1)
         IN  IF item = <<>> \/ eq_index = 0
             THEN parse_items(items, i - 1)
             ELSE Append(parse_items(items, i - 1),
                         [name  |-> Strip(SubSeq(item, 1, eq_index - 1)),
                          value |-> unquote(Strip(SubSeq(item, eq_index + 1, Len(item))))])

\* parse_cookie_string(cookie_str, domain) of Panel-NA1: the name and value of each cookie
parse_cookie_string(cookie_str) ==
    IF cookie_str = <<>> THEN <<>>
    ELSE LET items == SplitOn(cookie_str, ";") IN parse_items(items, Len(items))

\* characters of a cookie value
ValueChars == {"a", ";", "=", " ", "%"}

\* longer values: plain text, an escape sequence in clear, inner and outer blanks
LongValues == { <<"a", "b">>, <<"%", "3", "B">>, <<"a", " ", "=">>, <<" ", "a">> }

\* cookie values
CookieValues == SeqsUpTo(ValueChars, MaxValueLen) \cup LongValues

\* cookie names a Billing-Kerit session can hold
KeritNames == { <<"session_id">>, <<"cf_clearance">>, <<"other">> }

\* cookie names a Panel-NA1 session can hold
PanelNames ==
    { <<"remember_web", "a">>, <<"XSRF-TOKEN">>, <<"XSRF-TOKEN", "2">>,
      <<"pterodactyl_session">>, <<"other">> }

\* the cookies of a browser session, in the order the driver lists them
CookieJars(names) ==
    SeqsUpTo({ [name |-> n, value |-> v] : n \in names, v \in CookieValues }, MaxCookies)

\* the cookie jars a run of main() is modelled to end with: no cookie, none
\* of the kept names, a kept name with an empty value, kept names and another
Cookie(name, value) == [name |-> name, value |-> value]

SessionJars(first, second) ==
    { <<>>,
      << Cookie(<<"other">>, <<"a">>) >>,
      << Cookie(first, <<>>) >>,
      << Cookie(second, <<"a">>) >>,
      << Cookie(first, <<"a">>), Cookie(<<"other">>, <<"a">>) >>,
      << Cookie(second, <<"a">>), Cookie(first, <<"a", "b">>) >> }

\* variant: the secret is written whatever save_cookies_for_update returned
CookieStringAlways(new_cookie_str) == TRUE

\* `if new_cookie_str:` - neither None nor the empty string
CookieString(new_cookie_str) == new_cookie_str # <<>>

\* handle_turnstile not running
TurnstileIdle ==
    /\ t_pc = "idle" /\ t_max = 0 /\ attempt = 0 /\ t_detections = 0 /\ t_clicks = 0
    /\ t_clicked = FALSE /\ t_found = FALSE /\ t_return = "none"
    /\ t_token = FALSE /\ t_rechecked = FALSE

\* no cookie function is being applied
CookiesIdle ==
    /\ ck_pc = "idle" /\ ck_site = "none" /\ ck_jar = <<>> /\ ck_kept = <<>>
    /\ ck_string = <<>> /\ ck_parsed = <<>>

-----------------------------------------------------------------------------
(* Billing-Kerit: the network interception shim and check_renewal_result *)

\* HTTP statuses the /api/renew call is modelled to answer with
ApiStatuses == {200, 201, 400, 429, 500}

MsgExceed == <<"Cannot", "exceed", "7", "days">>
MsgOther  == <<"Internal", "error">>

\* resp.data as stored by the shim: no data key (the body was not JSON), or a
\* dict whose "message" is a string (isstr) or JSON null (~isstr)
ApiData ==
    { [kind |-> "absent", isstr |-> TRUE,  text |-> <<>>],
      [kind |-> "dict",   isstr |-> TRUE,  text |-> MsgExceed],
      [kind |-> "dict",   isstr |-> TRUE,  text |-> MsgOther],
      [kind |-> "dict",   isstr |-> FALSE, text |-> <<>>] }

\* the entry the patched fetch / XMLHttpRequest pushes for one /api/renew answer
CapturedEntry(status, data) ==
    [status |-> status, ok |-> (status >= 200 /\ status < 300), data |-> data]

CapturedEntries == { CapturedEntry(s, d) : s \in ApiStatuses, d \in ApiData }

\* get_api_responses: the stored list, [] when the script raises
get_api_responses(raises, stored) == IF raises THEN <<>> ELSE stored

\* Python truthiness of the message: a non-empty string
Truthy(message) == message.isstr /\ message.text # <<>>

\* variant: the result dict starts out as a success
SuccessDefaultResult == [status |-> "success", message |-> <<>>, api_status |-> <<>>]

\* the initial result dict; api_status None is <<>>, a status n is <<n>>
UnknownResult == [status |-> "unknown", message |-> <<>>, api_status |-> <<>>]

\* variant: only the full phrase, compared without lower()
ExceedPhraseExact(text) == Includes(text, <<"cannot", "exceed", "7", "days">>)

\* `"cannot exceed 7 days" in message.lower() or "exceed" in message.lower()`
ExceedPhrase(text) ==
    \/ Includes(Lower(text), <<"cannot", "exceed", "7", "days">>)
    \/ Includes(Lower(text), <<"exceed">>)

\* the loop over reversed(api_responses), from entry i down to entry 1.
\* returned: a `return result` was executed inside the loop; otherwise the loop
\* ended, or message.lower() raised on a non-string and the except swallowed it.
RECURSIVE ScanResponses(_, _, _)
ScanResponses(resps, i, result) ==
    IF i = 0 THEN [returned |-> FALSE, result |-> result]
    ELSE
      LET resp        == resps[i]
          status_code == resp.status
          message     == [isstr |-> resp.data.isstr, text |-> resp.data.text]
          seen        == [result EXCEPT !.api_status = <<status_code>>]
      IN
        IF status_code = 200 /\ resp.ok
        THEN [returned |-> TRUE,
              result |-> [seen EXCEPT !.status = "success",
                            !.message = IF Truthy(message) THEN message.text
                                        ELSE <<"renewal", "succeeded">>]]
        ELSE IF status_code = 400
        THEN IF ~message.isstr
             THEN [returned |-> FALSE, result |-> seen]
             ELSE IF ExceedPhrase(message.text)
             THEN [returned |-> TRUE,
                   result |-> [seen EXCEPT !.status = "limit_reached",
                                           !.message = message.text]]
             ELSE [returned |-> TRUE,
                   result |-> [seen EXCEPT !.status = "error",
                                 !.message = IF Truthy(message) THEN message.text
                                             ELSE <<"request", "error">>]]
        ELSE IF status_code >= 400
        THEN [returned |-> TRUE,
              result |-> [seen EXCEPT !.status = "error",
                            !.message = IF Truthy(message) THEN message.text
                                        ELSE <<"HTTP", ToString(status_code)>>]]
        ELSE ScanResponses(resps, i - 1, seen)

\* the toast loop of the page script, from toast i on; <<>> is null
RECURSIVE ToastMessage(_, _)
ToastMessage(ts, i) ==
    IF i > Len(ts) THEN <<>>
    ELSE IF Includes(ts[i], <<"Cannot", "exceed">>) \/ Includes(ts[i], <<"exceed", "7", "days">>)
    THEN ts[i]
    ELSE IF Includes(ts[i], <<"success">>) /\ Includes(ts[i], <<"renew">>)
    THEN <<"SUCCESS">>
    ELSE ToastMessage(ts, i + 1)

\* the page-message script; <<>> is null
PageMessage(body, ts) ==
    IF Includes(body, <<"Cannot", "exceed", "7", "days">>)
    THEN <<"Cannot", "exceed", "7", "days", "validity">>
    ELSE IF Includes(body, <<"limit", "reached">>) \/ Includes(body, <<"weekly", "limit">>)
    THEN <<"Weekly", "limit", "reached">>
    ELSE IF Includes(body, <<"renewed", "successfully">>) \/ Includes(body, <<"Renewal", "successful">>)
    THEN <<"SUCCESS">>
    ELSE ToastMessage(ts, 1)

\* variant: a page script that raises marks the result as an error
PageVerdictRaiseIsError(result, raises, body, ts) ==
    LET page_error == PageMessage(body, ts) IN
    IF raises THEN [result EXCEPT !.status = "error"]
    ELSE IF page_error = <<>> THEN result
    ELSE IF page_error = <<"SUCCESS">>
    THEN [result EXCEPT !.status = "success", !.message = <<"renewal", "succeeded">>]
    ELSE [result EXCEPT !.status = "limit_reached", !.message = page_error]

\* step 2 of check_renewal_result: the page message decides, when there is one
PageVerdict(result, raises, body, ts) ==
    LET page_error == PageMessage(body, ts) IN
    IF raises \/ page_error = <<>> THEN result
    ELSE IF page_error = <<"SUCCESS">>
    THEN [result EXCEPT !.status = "success", !.message = <<"renewal", "succeeded">>]
    ELSE IF Includes(Lower(page_error), <<"exceed">>) \/ Includes(Lower(page_error), <<"limit">>)
    THEN [result EXCEPT !.status = "limit_reached", !.message = page_error]
    ELSE result

\* variant: the page message is consulted before the captured responses
check_renewal_result_page_first(apiRaises, stored, pageRaises, body, ts) ==
    LET api_responses == get_api_responses(apiRaises, stored)
        page == PageVerdict(UnknownResult, pageRaises, body, ts)
        scan == ScanResponses(api_responses, Len(api_responses), UnknownResult)
    IN  IF page.status # "unknown" THEN page
        ELSE scan.result

check_renewal_result(apiRaises, stored, pageRaises, body, ts) ==
    LET api_responses == get_api_responses(apiRaises, stored)
        scan == ScanResponses(api_responses, Len(api_responses), UnknownResult)
    IN  IF scan.returned THEN scan.result
        ELSE PageVerdict(scan.result, pageRaises, body, ts)

\* page texts and toasts the classifier is run on
BodyTexts ==
    { <<>>,
      <<"Free", "Plans">>,
      <<"Cannot", "exceed", "7", "days", "validity">>,
      <<"Weekly", "limit", "reached">>,
      <<"Server", "renewed", "successfully">>,
      <<"Renewal", "successful">>,
      <<"maximum", "renewals">> }

ToastTexts ==
    { <<"Cannot", "exceed", "7", "days">>,
      <<"Server", "renewed", "successfully">>,
      <<"Saved">> }

ToastLists == { <<>> } \cup { <<t>> : t \in ToastTexts }
                \cup { << <<"Saved">>, t >> : t \in ToastTexts \ { <<"Saved">> } }

\* main() of Billing-Kerit not running
KeritIdle ==
    /\ kpc = "idle" /\ poll_i = 0 /\ interception_ready = FALSE
    /\ renewal_round = 0 /\ total_renewed = 0 /\ last_answer = <<>>
    /\ round_evidence = FALSE /\ every_round_clear = TRUE
    /\ trigger_clicks = 0 /\ confirm_submits = 0
    /\ notifications = <<>> /\ secret_updates = 0 /\ exit_code = -1
    /\ session_url = <<>> /\ trigger_missing = FALSE /\ fatal_observed = FALSE
    /\ k_captured = <<>>
    /\ turnstile_cleared = "none" /\ modal_open = FALSE /\ ad_left = 0
    /\ focus = "main" /\ ceiling_shown = FALSE /\ stop_reason = "none"

\* main() of data-online not running
DataOnlineIdle ==
    /\ dpc = "idle" /\ d_i = 0 /\ page_ready = FALSE /\ final_status = "failed"
    /\ error_message = "none" /\ command_typed = FALSE /\ enter_pressed = FALSE
    /\ tg_configured = FALSE /\ d_notified = <<>> /\ d_exit = -1

\* main() of Panel-NA1 not running
PanelQuiet ==
    /\ npc = "idle" /\ api_servers = <<>> /\ n_idx = 0 /\ results = <<>>
    /\ success_count = 0 /\ fail_count = 0 /\ n_notifications = <<>>
    /\ n_secret_updates = 0 /\ n_exit = -1 /\ n_clicks = {} /\ n_started = FALSE
    /\ n_contexts = 0 /\ n_visited = <<>> /\ api_captured = FALSE
    /\ n_login_url = FALSE /\ n_captured = <<>>

PanelIdle == PanelQuiet /\ n_pending = <<>>

\* main() of nodeloc not running
NodelocIdle ==
    /\ lpc = "idle" /\ accounts = <<>> /\ l_idx = 0 /\ l_result = <<>>
    /\ l_results = <<>> /\ l_success = 0 /\ l_fail = 0 /\ l_live = 0
    /\ l_clicks = {} /\ l_notified = 0 /\ l_exit = -1

ClassifyInit ==
    /\ KeritIdle
    /\ DataOnlineIdle
    /\ PanelIdle
    /\ NodelocIdle
    /\ CookiesIdle
    /\ TurnstileIdle
    /\ cr_pc = "start"
    /\ api_raises \in BOOLEAN
    /\ renewApiResponses \in SeqsUpTo(CapturedEntries, MaxResponses)
    /\ api_raises => renewApiResponses = <<>>
    /\ page_raises \in BOOLEAN
    /\ bodyText \in BodyTexts
    /\ toasts \in ToastLists
    /\ page_raises => (bodyText = <<>> /\ toasts = <<>>)
    /\ cr_result = UnknownResult

\* one call of check_renewal_result(sb)
CheckRenewalResult ==
    /\ cr_pc = "start"
    /\ cr_result' = check_renewal_result(api_raises, renewApiResponses, page_raises, bodyText, toasts)
    /\ cr_pc' = "done"
    /\ UNCHANGED <<api_raises, page_raises, toasts, pagevars, kvars, dvars, nvars, lvars, tvars, cvars>>

ClassifyNext == CheckRenewalResult

SpecClassify == ClassifyInit /\ [][ClassifyNext]_vars

-----------------------------------------------------------------------------
(* Billing-Kerit: main() *)

\* max_renewals of the renewal loop
max_renewals == 7

\* range(30) of the challenge wait after the first visit
ChallengePolls == 30

\* setup_network_interception(sb): patches fetch and XMLHttpRequest and resets
\* window._renewApiResponses. main() holds no call of it, so it is not among
\* the steps of KeritNext.
setup_network_interception ==
    /\ interception_ready' = TRUE
    /\ renewApiResponses' = <<>>

\* current_url values, as the words of the path and query
Urls ==
    { <<"session">>, <<"free_panel">>, <<"dashboard">>,
      <<"login">>, <<"register">>, <<"login", "free_panel">> }

\* what check_page_error returns; "none" is None (also when its script raises)
PageErrors ==
    { "TOO_MANY_REDIRECTS", "CONNECTION_ERROR", "TIMEOUT_ERROR", "SSL_ERROR",
      "DNS_ERROR", "PAGE_NOT_WORKING", "BROWSER_ERROR" }

\* title of get_error_notify_message(page_error, context)
get_error_notify_title(page_error) ==
    CASE page_error = "TOO_MANY_REDIRECTS" -> "cookie_expired"
      [] page_error = "CONNECTION_ERROR"   -> "connection_error"
      [] page_error = "PAGE_NOT_WORKING"   -> "page_abnormal"
      [] OTHER                             -> "page_error"

\* check_login_status(sb); dom is what the script returns: "true", "false", "null"
check_login_status(current_url, dom, raises) ==
    IF raises THEN FALSE
    ELSE IF Includes(current_url, <<"login">>) \/ Includes(current_url, <<"register">>) THEN FALSE
    ELSE IF dom = "true" THEN TRUE
    ELSE IF dom = "false" THEN FALSE
    ELSE Includes(current_url, <<"free_panel">>) \/ Includes(current_url, <<"session">>)

\* variant: the loop runs one round more
LoopContinuesOneMore(r) == r <= max_renewals + 1

\* variant: range(1, max_renewals)
LoopContinuesOneLess(r) == r < max_renewals

\* for renewal_round in range(1, max_renewals + 1)
LoopContinues(r) == r <= max_renewals

\* the limit_reached script after the confirm step
LimitReachedText(body) ==
    \/ Includes(body, <<"Cannot", "exceed", "7", "days">>)
    \/ Includes(body, <<"exceed", "7", "days">>)
    \/ Includes(body, <<"maximum">>)
    \/ Includes(body, <<"limit", "reached">>)

\* the answers of the server to one confirm: none observed, or one /api/renew answer
Answers ==
    { <<>>,
      << CapturedEntry(200, [kind |-> "absent", isstr |-> TRUE, text |-> <<>>]) >>,
      << CapturedEntry(400, [kind |-> "dict", isstr |-> TRUE, text |-> MsgExceed]) >>,
      << CapturedEntry(500, [kind |-> "dict", isstr |-> TRUE, text |-> MsgOther]) >> }

\* positive success evidence of one round: a 200/ok answer or a success phrase
SuccessEvidence(answer, body) ==
    \/ answer # <<>> /\ answer[1].status = 200 /\ answer[1].ok
    \/ Includes(body, <<"renewed", "successfully">>)
    \/ Includes(body, <<"Renewal", "successful">>)

\* current_days as read back after the refresh
DaysTexts ==
    { <<"unknown">>, <<"3", "Days">>, <<"6", "Days">>, <<"7", "Days">>, <<"soon">>, <<>> }

\* `if days_num >= 7`
DaysCeiling == 7

IsNumeral(w) == w \in {"3", "6", "7"}

\* int() on a numeral
IntOf(w) == CASE w = "3" -> 3 [] w = "6" -> 6 [] w = "7" -> 7 [] OTHER -> 0

\* days_num >= 7 was reached; int() or [0] raising is swallowed and does not break
DaysCeilingReached(current_days) ==
    /\ current_days # <<"unknown">>
    /\ current_days # <<>>
    /\ IsNumeral(current_days[1])
    /\ IntOf(current_days[1]) >= DaysCeiling

\* positions of main() at which a browser call outside a local try may raise
RaisingStages ==
    { "first_visit", "challenge_wait", "first_check", "session", "login_check",
      "free_panel", "free_blocked", "renew_info", "round_head", "modal_check",
      "ad", "confirm", "limit_check", "close_refresh", "final" }

KeritInit ==
    /\ cr_pc = "idle" /\ api_raises = FALSE /\ page_raises = FALSE
    /\ toasts = <<>> /\ cr_result = UnknownResult
    /\ renewApiResponses = <<>> /\ bodyText = <<>>
    /\ kpc = "launch" /\ poll_i = 0 /\ interception_ready = FALSE
    /\ renewal_round = 0 /\ total_renewed = 0 /\ last_answer = <<>>
    /\ round_evidence = FALSE /\ every_round_clear = TRUE
    /\ trigger_clicks = 0 /\ confirm_submits = 0
    /\ notifications = <<>> /\ secret_updates = 0 /\ exit_code = -1
    /\ session_url = <<>> /\ trigger_missing = FALSE /\ fatal_observed = FALSE
    /\ k_captured = <<>>
    /\ turnstile_cleared = "none" /\ modal_open = FALSE /\ ad_left = 0
    /\ focus = "main" /\ ceiling_shown = FALSE /\ stop_reason = "none"
    /\ DataOnlineIdle
    /\ PanelIdle
    /\ NodelocIdle
    /\ CookiesIdle
    /\ TurnstileIdle

kloop == <<interception_ready, renewal_round, total_renewed, last_answer, round_evidence,
           every_round_clear, trigger_clicks, confirm_submits>>

\* what the run noticed at its checks, and what it captured from the cookie jar
ksession == <<session_url>>
kcookie == <<trigger_missing, k_captured>>
kcheck == <<fatal_observed>>

\* the state of the current round and of the page it acts on
kround == <<turnstile_cleared, modal_open, ad_left, focus, ceiling_shown, stop_reason>>

\* move to the next position inside a round: what the round notes is set by the caller
GotoInRound(next) ==
    /\ kpc' = next
    /\ UNCHANGED <<ksession, kcookie, kcheck, tvars, cvars, lvars, nvars, dvars, crvars, pagevars,
                   poll_i, kloop, notifications, secret_updates, exit_code>>

\* move to the next position, nothing else changes
Goto(next) ==
    /\ kpc' = next
    /\ UNCHANGED <<ksession, kcookie, kcheck, kround, tvars, cvars, lvars, nvars, dvars, crvars, pagevars, poll_i, kloop, notifications, secret_updates, exit_code>>

\* the run ends with one failure report and status 1; observed: a check of
\* the page reported. The title "execution_error" is the except of main().
Exit1(title, observed) ==
    /\ notifications' = Append(notifications, [success |-> FALSE, title |-> title])
    /\ kpc' = "exit"
    /\ exit_code' = 1
    /\ fatal_observed' = (fatal_observed \/ observed)
    /\ every_round_clear' = (every_round_clear /\ title # "execution_error")
    /\ UNCHANGED <<kcookie, kround, tvars, cvars, lvars, nvars, dvars, crvars, pagevars, poll_i,
                   interception_ready, renewal_round, total_renewed, last_answer,
                   round_evidence, trigger_clicks, confirm_submits, secret_updates>>

\* notify_telegram(False, title, ...) followed by sys.exit(1)
Fatal(title) ==
    /\ Exit1(title, FALSE)
    /\ UNCHANGED ksession

\* variant: the check logs what it found and the run goes on
CheckpointGoesOn(title, next) ==
    /\ kpc' = next
    /\ fatal_observed' = TRUE
    /\ UNCHANGED <<ksession, kcookie, kround, tvars, cvars, lvars, nvars, dvars, crvars, pagevars, poll_i, kloop,
                   notifications, secret_updates, exit_code>>

\* a check reported: sb.save_screenshot, notify_telegram(False, title, ...),
\* sys.exit(1); save_screenshot raising is caught by the except of main().
\* next is where main() would go on had the check reported nothing.
Checkpoint(title, next) ==
    /\ \E saved \in BOOLEAN : Exit1(IF saved THEN title ELSE "execution_error", TRUE)
    /\ UNCHANGED ksession

\* with SB(**sb_kwargs) as sb; a failure to start goes to the outer except
K_Launch ==
    /\ kpc = "launch"
    /\ \E started \in BOOLEAN :
          IF started THEN Goto("first_visit") ELSE Fatal("launch_failed")

\* 1. the first visit
K_FirstVisit ==
    /\ kpc = "first_visit"
    /\ poll_i' = 0
    /\ kpc' = "challenge_wait"
    /\ UNCHANGED <<ksession, kcookie, kcheck, kround, tvars, cvars, lvars, nvars, dvars, crvars, pagevars, kloop, notifications, secret_updates, exit_code>>

\* one pass of `for i in range(30)`: break when no challenge shows, else go on;
\* the loop also ends when the 30 passes are used up. i is not read after the
\* loop and is put back to 0 on leaving it.
\* variant: the wait allows one poll more
keeps_waiting_one_more(challenge, i) == challenge /\ i < ChallengePolls

\* `for i in range(30)`: the loop goes round again while the page is a
\* challenge page and polls are left
keeps_waiting(challenge, i) == challenge /\ i + 1 < ChallengePolls

K_ChallengePoll ==
    /\ kpc = "challenge_wait"
    /\ \E challenge \in BOOLEAN :
          IF keeps_waiting(challenge, poll_i)
          THEN /\ poll_i' = poll_i + 1
               /\ kpc' = "challenge_wait"
          ELSE /\ poll_i' = 0
               /\ kpc' = "first_check"
    /\ UNCHANGED <<ksession, kcookie, kcheck, kround, tvars, cvars, lvars, nvars, dvars, crvars, pagevars, kloop, notifications, secret_updates, exit_code>>

\* check_page_error and check_access_blocked after the first visit
K_FirstCheck ==
    /\ kpc = "first_check"
    /\ \E page_error \in PageErrors \cup {"none"}, blocked \in BOOLEAN :
          IF page_error # "none" THEN Checkpoint(get_error_notify_title(page_error), "inject")
          ELSE IF blocked THEN Checkpoint("access_blocked", "inject")
          ELSE Goto("inject")

\* 2. sb.add_cookie of session_id; a failure is logged only
K_Inject ==
    /\ kpc = "inject"
    /\ Goto("session")

\* 3. the session page: current_url is read, then check_page_error
K_Session ==
    /\ kpc = "session"
    /\ \E current_url \in Urls, page_error \in PageErrors \cup {"none"} :
          /\ session_url' = current_url
          /\ IF page_error # "none"
             THEN \E saved \in BOOLEAN :
                     Exit1(IF saved THEN get_error_notify_title(page_error)
                           ELSE "execution_error", TRUE)
             ELSE /\ kpc' = "session_shot"
                  /\ UNCHANGED <<kcookie, kcheck, kround, tvars, cvars, lvars, nvars, dvars, crvars, pagevars,
                                 poll_i, kloop, notifications, secret_updates, exit_code>>

\* sb.save_screenshot(sp_session) of the session page: the call is not
\* guarded, an exception of it reaches the except of main()
K_SessionShot ==
    /\ kpc = "session_shot"
    /\ \E saved \in BOOLEAN :
          IF saved
          THEN /\ kpc' = "login_check"
               /\ UNCHANGED <<ksession, kcookie, kcheck, kround, tvars, cvars, lvars, nvars, dvars,
                              crvars, pagevars, poll_i, kloop, notifications, secret_updates,
                              exit_code>>
          ELSE /\ Exit1("execution_error", FALSE)
               /\ UNCHANGED ksession

\* check_login_status on the session page; nothing navigates between the
\* read of current_url and the check, so both see one URL. current_url is
\* assigned anew on the Free Plans page and is cleared here when the check passes.
K_LoginCheck ==
    /\ kpc = "login_check"
    /\ \E dom \in {"true", "false", "null"}, raises \in BOOLEAN :
          IF ~check_login_status(session_url, dom, raises)
          THEN /\ Exit1("login_failed", TRUE)
               /\ UNCHANGED ksession
          ELSE /\ kpc' = "free_panel"
               /\ session_url' = <<>>
               /\ UNCHANGED <<kcookie, kcheck, kround, tvars, cvars, lvars, nvars, dvars, crvars, pagevars,
                              poll_i, kloop, notifications, secret_updates, exit_code>>

\* 4. the Free Plans page, retried once when the URL is another page
K_FreePanel ==
    /\ kpc = "free_panel"
    /\ \E page_error \in PageErrors \cup {"none"}, current_url \in Urls,
          retry_error \in PageErrors \cup {"none"}, retry_url \in Urls :
          IF page_error # "none"
          THEN Checkpoint(get_error_notify_title(page_error), "free_blocked")
          ELSE IF ~Includes(current_url, <<"free_panel">>)
          THEN IF retry_error # "none"
               THEN Checkpoint(get_error_notify_title(retry_error), "free_blocked")
               ELSE IF ~Includes(retry_url, <<"free_panel">>) THEN Fatal("access_failed")
               ELSE Goto("free_blocked")
          ELSE Goto("free_blocked")

\* check_access_blocked on the Free Plans page
K_FreeBlocked ==
    /\ kpc = "free_blocked"
    /\ \E blocked \in BOOLEAN :
          IF blocked THEN Checkpoint("access_blocked", "renew_info") ELSE Goto("renew_info")

\* the renewServerBtn script of step 6: `if (!btn) return true;` and else
\* `btn.disabled || btn.hasAttribute('disabled')`
renew_btn_disabled(btn) == btn # "enabled"

\* 5./6. renewal info and the renewServerBtn check: a missing or disabled
\* button ends the run with a "check done" report, else the loop starts
K_RenewInfo ==
    /\ kpc = "renew_info"
    /\ \E btn \in {"missing", "disabled", "enabled"} :
          IF renew_btn_disabled(btn)
          THEN /\ trigger_missing' = (btn = "missing")
               /\ \E cookies \in SessionJars(<<"session_id">>, <<"cf_clearance">>), raises \in BOOLEAN :
                     LET new_cookie_str == kerit_save_cookies_for_update(cookies, raises) IN
                     /\ k_captured' = IF raises THEN <<>>
                                    ELSE important_cookies(cookies, Len(cookies))
                     /\ secret_updates' = secret_updates
                                             + (IF CookieString(new_cookie_str) THEN 1 ELSE 0)
               /\ notifications' = Append(notifications, [success |-> TRUE, title |-> "check_done"])
               /\ kpc' = "exit"
               /\ exit_code' = 0
               /\ UNCHANGED <<ksession, kcheck, kround, tvars, cvars, lvars, nvars, dvars, crvars, pagevars, poll_i, kloop>>
          ELSE /\ total_renewed' = 0
               /\ renewal_round' = 1
               /\ kpc' = "round_head"
               /\ \E shown \in BOOLEAN : ceiling_shown' = shown
               /\ UNCHANGED <<turnstile_cleared, modal_open, ad_left, focus, stop_reason>>
               /\ UNCHANGED <<ksession, kcookie, kcheck, tvars, cvars, lvars, nvars, dvars, crvars, pagevars, poll_i, interception_ready, last_answer,
                              round_evidence, every_round_clear, trigger_clicks,
                              confirm_submits, notifications, secret_updates, exit_code>>

\* the for statement finds the range used up: the loop is left
K_LoopExhausted ==
    /\ kpc = "round_head"
    /\ ~LoopContinues(renewal_round)
    /\ GotoInRound("final")
    /\ stop_reason' = "exhausted"
    /\ UNCHANGED <<turnstile_cleared, modal_open, ad_left, focus, ceiling_shown>>

\* top of a round: renewServerBtn is missing or disabled, break
K_ButtonDisabled ==
    /\ kpc = "round_head"
    /\ LoopContinues(renewal_round)
    /\ kpc' = "final"
    /\ every_round_clear' = FALSE
    /\ stop_reason' = "disabled"
    /\ UNCHANGED <<turnstile_cleared, modal_open, ad_left, focus, ceiling_shown>>
    /\ UNCHANGED <<ksession, kcookie, kcheck, tvars, cvars, lvars, nvars, dvars, crvars, pagevars, poll_i, interception_ready, renewal_round, total_renewed,
                   last_answer, round_evidence, trigger_clicks, confirm_submits,
                   notifications, secret_updates, exit_code>>

\* top of a round: the button is enabled and is clicked
K_ClickTrigger ==
    /\ kpc = "round_head"
    /\ LoopContinues(renewal_round)
    /\ trigger_clicks' = trigger_clicks + 1
    /\ last_answer' = <<>>
    /\ round_evidence' = FALSE
    /\ kpc' = "modal_check"
    /\ UNCHANGED <<ksession, kcookie, kcheck, kround, tvars, cvars, lvars, nvars, dvars, crvars, pagevars, poll_i, interception_ready, renewal_round, total_renewed,
                   every_round_clear, confirm_submits, notifications, secret_updates, exit_code>>

\* modal_visible: a modal that did not open skips the round (continue)
K_ModalCheck ==
    /\ kpc = "modal_check"
    /\ \E modal_visible \in BOOLEAN :
          IF modal_visible
          THEN /\ GotoInRound("turnstile")
               /\ modal_open' = TRUE
               /\ UNCHANGED <<turnstile_cleared, ad_left, focus, ceiling_shown, stop_reason>>
          ELSE /\ renewal_round' = renewal_round + 1
               /\ every_round_clear' = FALSE
               /\ kpc' = "round_head"
               /\ UNCHANGED <<ksession, kcookie, kcheck, kround, tvars, cvars, lvars, nvars, dvars, crvars, pagevars, poll_i, interception_ready, total_renewed,
                              last_answer, round_evidence, trigger_clicks, confirm_submits,
                              notifications, secret_updates, exit_code>>

\* variant: a challenge that was not cleared skips the ad and the confirm
after_turnstile_gated(cleared) == IF cleared THEN "ad" ELSE "close_refresh"

\* the statement after `handle_turnstile(sb)`: its value is not used
after_turnstile(cleared) == "ad"

\* uc_gui_click_captcha (failure swallowed) and handle_turnstile(sb)
K_Turnstile ==
    /\ kpc = "turnstile"
    /\ \E cleared \in BOOLEAN :
          /\ turnstile_cleared' = (IF cleared THEN "True" ELSE "False")
          /\ GotoInRound(after_turnstile(cleared))
    /\ UNCHANGED <<modal_open, ad_left, focus, ceiling_shown, stop_reason>>

\* the ad banner click; each window that is new after it is switched to and
\* closed inside try/except: pass, then the driver switches to main_window.
\* still_open: new windows whose close() raised and that stayed open.
K_AdClick ==
    /\ kpc = "ad"
    /\ \E new_windows \in 0..MaxAdWindows :
          \E still_open \in 0..new_windows :
             /\ ad_left' = still_open
             /\ focus' = IF new_windows > 0 THEN "main" ELSE focus
    /\ GotoInRound("confirm")
    /\ UNCHANGED <<turnstile_cleared, modal_open, ceiling_shown, stop_reason>>

\* the final confirm: renewBtn is clicked when it exists and is enabled, else
\* the modal form is submitted when there is one; then the page reacts
K_Confirm ==
    /\ kpc = "confirm"
    /\ \E btn \in {"ready", "disabled", "missing"}, still_enabled \in BOOLEAN,
          form_exists \in BOOLEAN :
          LET activated == IF btn = "ready" THEN still_enabled ELSE form_exists IN
          \E answer \in (IF activated THEN Answers ELSE { <<>> }), body \in BodyTexts :
             /\ confirm_submits' = confirm_submits + (IF activated THEN 1 ELSE 0)
             /\ last_answer' = answer
             /\ bodyText' = body
             /\ renewApiResponses' = IF interception_ready THEN renewApiResponses \o answer
                                     ELSE renewApiResponses
             /\ round_evidence' = SuccessEvidence(answer, body)
    /\ kpc' = "limit_check"
    /\ UNCHANGED <<ksession, kcookie, kcheck, kround, tvars, cvars, lvars, nvars, dvars, crvars, poll_i, interception_ready, renewal_round, total_renewed,
                   every_round_clear, trigger_clicks, notifications, secret_updates, exit_code>>

\* the limit_reached script: a limit text breaks the loop, anything else
\* counts the round (total_renewed += 1). What the round noted of its
\* challenge and of its ad windows is dropped here.
K_LimitCheck ==
    /\ kpc = "limit_check"
    /\ IF LimitReachedText(bodyText)
       THEN /\ kpc' = "final"
            /\ every_round_clear' = FALSE
            /\ stop_reason' = "limit"
            /\ UNCHANGED total_renewed
       ELSE /\ total_renewed' = total_renewed + 1
            /\ kpc' = "close_refresh"
            /\ UNCHANGED <<every_round_clear, stop_reason>>
    /\ turnstile_cleared' = "none"
    /\ ad_left' = 0
    /\ UNCHANGED <<modal_open, focus, ceiling_shown>>
    /\ UNCHANGED <<ksession, kcookie, kcheck, tvars, cvars, lvars, nvars, dvars, crvars, pagevars, poll_i, interception_ready, renewal_round, last_answer,
                   round_evidence, trigger_clicks, confirm_submits, notifications,
                   secret_updates, exit_code>>

\* variant: the close script is left out
close_modal_skipped(open) == open

\* the close script: closeBtn.click(), modal.style.display = 'none', backdrop removed
close_modal(open) == FALSE

\* the modal is closed, the page refreshed (a reload drops every patch and
\* window._renewApiResponses), count and days are read back; days >= 7 breaks
K_CloseRefresh ==
    /\ kpc = "close_refresh"
    /\ interception_ready' = FALSE
    /\ renewApiResponses' = <<>>
    /\ \E body \in BodyTexts : bodyText' = body
    /\ modal_open' = close_modal(modal_open)
    /\ \E current_days \in DaysTexts :
          /\ ceiling_shown' = DaysCeilingReached(current_days)
          /\ IF DaysCeilingReached(current_days)
             THEN /\ kpc' = "final"
                  /\ every_round_clear' = FALSE
                  /\ stop_reason' = "ceiling"
                  /\ UNCHANGED renewal_round
             ELSE /\ kpc' = "round_head"
                  /\ renewal_round' = renewal_round + 1
                  /\ UNCHANGED <<every_round_clear, stop_reason>>
    /\ UNCHANGED <<turnstile_cleared, ad_left, focus>>
    /\ UNCHANGED <<ksession, kcookie, kcheck, tvars, cvars, lvars, nvars, dvars, crvars, poll_i, total_renewed, last_answer, round_evidence,
                   trigger_clicks, confirm_submits, notifications, secret_updates, exit_code>>

\* final count, status and days are read and the last screenshot is taken
K_Final ==
    /\ kpc = "final"
    /\ Goto("notify")

\* the report of the loop, then save_cookies_for_update and the secret update
K_Notify ==
    /\ kpc = "notify"
    /\ notifications' = Append(notifications,
          IF total_renewed > 0
          THEN [success |-> TRUE,  title |-> "renewal_succeeded"]
          ELSE [success |-> FALSE, title |-> "renewal_not_performed"])
    /\ \E cookies \in SessionJars(<<"session_id">>, <<"cf_clearance">>), raises \in BOOLEAN :
          LET new_cookie_str == kerit_save_cookies_for_update(cookies, raises) IN
          /\ k_captured' = IF raises THEN <<>> ELSE important_cookies(cookies, Len(cookies))
          /\ secret_updates' = secret_updates + (IF CookieString(new_cookie_str) THEN 1 ELSE 0)
    /\ kpc' = "exit"
    /\ exit_code' = 0
    /\ UNCHANGED <<ksession, kcheck, trigger_missing, kround, tvars, cvars, lvars, nvars, dvars, crvars, pagevars, poll_i, kloop>>

\* a browser call raises: the except of main() reports it and exits with 1
K_Raise ==
    /\ kpc \in RaisingStages
    /\ notifications' = Append(notifications, [success |-> FALSE, title |-> "execution_error"])
    /\ every_round_clear' = FALSE
    /\ kpc' = "exit"
    /\ exit_code' = 1
    /\ UNCHANGED <<ksession, kcookie, kcheck, kround, tvars, cvars, lvars, nvars, dvars, crvars, pagevars, poll_i, interception_ready, renewal_round, total_renewed,
                   last_answer, round_evidence, trigger_clicks, confirm_submits, secret_updates>>

KeritNext ==
    \/ K_Launch \/ K_FirstVisit \/ K_ChallengePoll \/ K_FirstCheck \/ K_Inject
    \/ K_Session \/ K_SessionShot \/ K_LoginCheck \/ K_FreePanel \/ K_FreeBlocked \/ K_RenewInfo
    \/ K_LoopExhausted \/ K_ButtonDisabled \/ K_ClickTrigger \/ K_ModalCheck
    \/ K_Turnstile \/ K_AdClick \/ K_Confirm \/ K_LimitCheck \/ K_CloseRefresh
    \/ K_Final \/ K_Notify \/ K_Raise

SpecKerit == KeritInit /\ [][KeritNext]_vars

\* main() is a sequential program: it takes its next step as long as it has one
FairSpecKerit == SpecKerit /\ WF_vars(KeritNext)

-----------------------------------------------------------------------------
(* data-online: main() *)

\* wait_for_page_ready(page, timeout=30)
ReadyTimeout == 30

\* for attempt in range(3): wait_for_selector('input')
FormAttempts == 3

\* for i in range(10): check_login_status(page)
LoginPolls == 10

\* page.url while the login result is polled, as path segments
DataUrls ==
    { <<"evo", "login">>, <<"evo">>, <<"evo", "account-disabled">>,
      <<"evo", "login", "wrong-password">>, <<"evo", "login", "invalid">> }

\* page.text_content('body'); <<>> is None or the empty string
DataBodies ==
    { <<>>, <<"Sign", "in">>, <<"Account", "Disabled">>,
      <<"Wrong", "Password">>, <<"Invalid", "credentials">> }

\* check_login_status(page) of data-online; text_raises: text_content raised
data_online_check_login_status(current_url, page_text, text_raises) ==
    IF Includes(current_url, <<"account-disabled">>) THEN "disabled"
    ELSE IF Includes(current_url, <<"wrong-password">>) \/ Includes(current_url, <<"invalid">>)
         THEN "wrong_password"
    ELSE IF ~Includes(current_url, <<"login">>) THEN "success"
    ELSE IF text_raises \/ page_text = <<>> THEN "pending"
    ELSE IF Includes(Lower(page_text), <<"disabled">>) THEN "disabled"
    ELSE IF Includes(Lower(page_text), <<"wrong", "password">>)
            \/ Includes(Lower(page_text), <<"invalid">>) THEN "wrong_password"
    ELSE "pending"

\* positions inside the try block where an awaited browser call can raise
DataRaisingStages ==
    { "goto", "initial_shot", "login_form", "password", "submit", "after_login",
      "terminal", "focus", "type", "enter", "final_shot" }

DataOnlineInit ==
    /\ cr_pc = "idle" /\ api_raises = FALSE /\ renewApiResponses = <<>>
    /\ page_raises = FALSE /\ bodyText = <<>> /\ toasts = <<>> /\ cr_result = "none"
    /\ KeritIdle
    /\ dpc = "config" /\ d_i = 0 /\ page_ready = FALSE /\ final_status = "failed"
    /\ error_message = "none" /\ command_typed = FALSE /\ enter_pressed = FALSE
    /\ tg_configured \in BOOLEAN /\ d_notified = <<>> /\ d_exit = -1
    /\ PanelIdle
    /\ NodelocIdle
    /\ CookiesIdle
    /\ TurnstileIdle

dflow == <<page_ready, final_status, error_message, command_typed, enter_pressed>>

\* move to another position, nothing else changes
DGoto(next) ==
    /\ dpc' = next
    /\ UNCHANGED <<tvars, cvars, lvars, nvars, crvars, pagevars, kvars, d_i, dflow, tg_configured, d_notified, d_exit>>

\* an exception leaves main(): no notification, exit status 1
DPropagate ==
    /\ dpc' = "exit"
    /\ d_exit' = 1
    /\ UNCHANGED <<tvars, cvars, lvars, nvars, crvars, pagevars, kvars, d_i, dflow, tg_configured, d_notified>>

\* raise inside the try block: the handler records the message only
DExcept(message) ==
    /\ error_message' = message
    /\ dpc' = "close"
    /\ UNCHANGED <<tvars, cvars, lvars, nvars, crvars, pagevars, kvars, d_i, page_ready, final_status, command_typed,
                   enter_pressed, tg_configured, d_notified, d_exit>>

\* DATA_USERNAME, DATA_PASSWORD, DATA_COMMAND
D_Config ==
    /\ dpc = "config"
    /\ \E configured \in BOOLEAN :
          IF configured THEN DGoto("launch") ELSE DPropagate

\* chromium.launch, new_context, new_page: outside the try block
D_Launch ==
    /\ dpc = "launch"
    /\ \E launched \in BOOLEAN :
          IF launched THEN DGoto("goto") ELSE DPropagate

\* page.goto(login_url)
D_Goto ==
    /\ dpc = "goto"
    /\ DGoto("wait_ready")

\* variant: a page that never got ready ends the run
after_wait_gated(ready) == IF ready THEN "initial_shot" ELSE "close"

\* main() after wait_for_page_ready: the screenshot of the initial page follows
\* whatever the function returned
after_wait_for_page_ready(ready) == "initial_shot"

\* one pass of the loop of wait_for_page_ready; exceptions are swallowed
D_WaitForPageReady ==
    /\ dpc = "wait_ready"
    /\ d_i < ReadyTimeout
    /\ \E ready \in BOOLEAN :
          /\ IF ready
             THEN page_ready' = TRUE /\ d_i' = 0 /\ dpc' = after_wait_for_page_ready(TRUE)
             ELSE IF d_i + 1 = ReadyTimeout
                  THEN page_ready' = FALSE /\ d_i' = 0 /\ dpc' = after_wait_for_page_ready(FALSE)
                  ELSE page_ready' = page_ready /\ d_i' = d_i + 1 /\ dpc' = dpc
          /\ UNCHANGED <<tvars, cvars, lvars, nvars, crvars, pagevars, kvars, final_status, error_message, command_typed,
                         enter_pressed, tg_configured, d_notified, d_exit>>

\* screenshot of the initial page, debug output when the page is not ready
D_InitialShot ==
    /\ dpc = "initial_shot"
    /\ DGoto("form_wait")

\* one attempt of wait_for_selector('input'); after the last one the form is missing
D_FormWait ==
    /\ dpc = "form_wait"
    /\ d_i < FormAttempts
    /\ \E input_found \in BOOLEAN :
          IF input_found
          THEN /\ dpc' = "login_form" /\ d_i' = 0
               /\ UNCHANGED <<tvars, cvars, lvars, nvars, crvars, pagevars, kvars, dflow, tg_configured, d_notified, d_exit>>
          ELSE IF d_i + 1 = FormAttempts
               THEN /\ dpc' = "close" /\ d_i' = 0
                    /\ error_message' = "login_form_missing"
                    /\ UNCHANGED <<tvars, cvars, lvars, nvars, crvars, pagevars, kvars, page_ready, final_status,
                                   command_typed, enter_pressed, tg_configured, d_notified,
                                   d_exit>>
               ELSE /\ d_i' = d_i + 1
                    /\ UNCHANGED <<tvars, cvars, lvars, nvars, crvars, pagevars, kvars, dpc, dflow, tg_configured,
                                   d_notified, d_exit>>

\* screenshot of the form, then the username selectors
D_FillUsername ==
    /\ dpc = "login_form"
    /\ \E username_filled \in BOOLEAN :
          IF username_filled THEN DGoto("password") ELSE DExcept("cannot_fill_username")

\* the password selectors
D_FillPassword ==
    /\ dpc = "password"
    /\ \E password_filled \in BOOLEAN :
          IF password_filled THEN DGoto("submit") ELSE DExcept("cannot_fill_password")

\* screenshot before submit, click on the first visible submit button
D_Submit ==
    /\ dpc = "submit"
    /\ DGoto("login_poll")

\* one pass of the login result loop
D_LoginPoll ==
    /\ dpc = "login_poll"
    /\ d_i < LoginPolls
    /\ \E current_url \in DataUrls, page_text \in DataBodies,
          text_raises \in BOOLEAN, shot_ok \in BOOLEAN :
          LET status == data_online_check_login_status(current_url, page_text, text_raises)
          IN  /\ IF status \in {"disabled", "wrong_password"}
                 THEN /\ final_status' = status
                      /\ d_i' = 0
                      /\ IF shot_ok
                         THEN dpc' = "after_login" /\ error_message' = error_message
                         ELSE dpc' = "close" /\ error_message' = "exception"
                 ELSE IF status = "success"
                 THEN /\ final_status' = "success"
                      /\ d_i' = 0
                      /\ dpc' = "after_login"
                      /\ error_message' = error_message
                 ELSE /\ final_status' = final_status
                      /\ IF d_i = LoginPolls - 1
                         THEN /\ error_message' = "login_timeout"
                              /\ d_i' = 0
                              /\ dpc' = "after_login"
                         ELSE /\ error_message' = error_message
                              /\ d_i' = d_i + 1
                              /\ dpc' = dpc
              /\ UNCHANGED <<tvars, cvars, lvars, nvars, crvars, pagevars, kvars, page_ready, command_typed, enter_pressed,
                             tg_configured, d_notified, d_exit>>

\* screenshot after login, then the branch on final_status
D_AfterLogin ==
    /\ dpc = "after_login"
    /\ IF final_status = "success" THEN DGoto("terminal") ELSE DGoto("close")

\* page.goto(terminal_url), wait_for_load_state, redirect check
D_Terminal ==
    /\ dpc = "terminal"
    /\ \E redirected \in BOOLEAN :
          IF redirected
          THEN /\ final_status' = "failed"
               /\ error_message' = "session_invalid"
               /\ dpc' = "close"
               /\ UNCHANGED <<tvars, cvars, lvars, nvars, crvars, pagevars, kvars, d_i, page_ready, command_typed,
                              enter_pressed, tg_configured, d_notified, d_exit>>
          ELSE DGoto("focus")

\* screenshot of the terminal, click on the terminal element or at (640, 400)
D_FocusTerminal ==
    /\ dpc = "focus"
    /\ DGoto("type")

\* page.keyboard.type(command)
D_TypeCommand ==
    /\ dpc = "type"
    /\ command_typed' = TRUE
    /\ dpc' = "enter"
    /\ UNCHANGED <<tvars, cvars, lvars, nvars, crvars, pagevars, kvars, d_i, page_ready, final_status, error_message,
                   enter_pressed, tg_configured, d_notified, d_exit>>

\* page.keyboard.press('Enter')
D_PressEnter ==
    /\ dpc = "enter"
    /\ enter_pressed' = TRUE
    /\ dpc' = "final_shot"
    /\ UNCHANGED <<tvars, cvars, lvars, nvars, crvars, pagevars, kvars, d_i, page_ready, final_status, error_message,
                   command_typed, tg_configured, d_notified, d_exit>>

\* screenshot of the result
D_FinalShot ==
    /\ dpc = "final_shot"
    /\ DGoto("close")

\* an awaited browser call raises: except Exception as e
D_Raise ==
    /\ dpc \in DataRaisingStages
    /\ DExcept("exception")

\* finally: browser.close()
D_Close ==
    /\ dpc = "close"
    /\ \E closed \in BOOLEAN :
          IF closed THEN DGoto("notify") ELSE DPropagate

\* the notification with status=final_status, then the exit status
D_NotifyAndExit ==
    /\ dpc = "notify"
    /\ d_notified' = IF tg_configured THEN Append(d_notified, final_status) ELSE d_notified
    /\ d_exit' = IF final_status \in {"disabled", "wrong_password"} THEN 0
                 ELSE IF final_status # "success" THEN 1
                 ELSE 0
    /\ dpc' = "exit"
    /\ UNCHANGED <<tvars, cvars, lvars, nvars, crvars, pagevars, kvars, d_i, dflow, tg_configured>>

DataOnlineNext ==
    \/ D_Config \/ D_Launch \/ D_Goto \/ D_WaitForPageReady \/ D_InitialShot
    \/ D_FormWait \/ D_FillUsername \/ D_FillPassword \/ D_Submit \/ D_LoginPoll
    \/ D_AfterLogin \/ D_Terminal \/ D_FocusTerminal \/ D_TypeCommand \/ D_PressEnter
    \/ D_FinalShot \/ D_Raise \/ D_Close \/ D_NotifyAndExit

SpecDataOnline == DataOnlineInit /\ [][DataOnlineNext]_vars

-----------------------------------------------------------------------------
(* Panel-NA1: main() *)

\* server identifiers an intercepted /api/client response can list
ServerIds == {"s1", "s2"}

\* lists handle_response can leave in api_servers (no deduplication inside a response)
ServerLists == SeqsUpTo(ServerIds, MaxServers)

\* page.url after the visit of BASE_URL, as path segments
PanelUrls == { <<>>, <<"auth", "login">>, <<"auth", "login", "next">>, <<"server", "s1">> }

\* one Run Result: the line appended to results and the counter it increments
Outcome(st, server_name, text, ok) ==
    [ results       |-> Append(st.results, [server |-> server_name, outcome |-> text]),
      success_count |-> st.success_count + (IF ok THEN 1 ELSE 0),
      fail_count    |-> st.fail_count + (IF ok THEN 0 ELSE 1) ]

\* variant: the Start branch falls through to the disabled entry
start_fallback_no_continue(st, server_name, started) ==
    IF started
    THEN Outcome(Outcome(st, server_name, "started", TRUE), server_name, "button_disabled", FALSE)
    ELSE Outcome(st, server_name, "button_disabled", FALSE)

\* Restart is disabled: Start clicked and captured, or the disabled entry
start_fallback(st, server_name, started) ==
    IF started
    THEN Outcome(st, server_name, "started", TRUE)
    ELSE Outcome(st, server_name, "button_disabled", FALSE)

\* title and exit status of the report
report(success, fail) ==
    IF fail = 0 THEN [success |-> TRUE, title |-> "all_done", code |-> 0]
    ELSE IF success > 0 THEN [success |-> TRUE, title |-> "partly_done", code |-> 0]
    ELSE [success |-> FALSE, title |-> "all_failed", code |-> 1]

ReportTitles == {"all_done", "partly_done", "all_failed"}

\* positions inside the inner try where a browser call can raise
ServerRaisingStages == {"visit", "disabled_check", "restart", "restarted"}

\* positions before the loop where a browser call raises into the outer handler
PanelRaisingStages == {"home", "dashboard"}

ClassifierIdle ==
    /\ cr_pc = "idle" /\ api_raises = FALSE /\ renewApiResponses = <<>>
    /\ page_raises = FALSE /\ bodyText = <<>> /\ toasts = <<>> /\ cr_result = "none"

PanelInit ==
    /\ ClassifierIdle
    /\ KeritIdle
    /\ DataOnlineIdle
    /\ npc = "init" /\ api_servers = <<>> /\ n_idx = 0 /\ results = <<>>
    /\ success_count = 0 /\ fail_count = 0 /\ n_notifications = <<>>
    /\ n_secret_updates = 0 /\ n_exit = -1 /\ n_clicks = {} /\ n_started = FALSE
    /\ n_contexts = 0 /\ n_visited = <<>>
    /\ api_captured = FALSE /\ n_pending = <<>>
    /\ n_login_url = FALSE /\ n_captured = <<>>
    /\ NodelocIdle
    /\ CookiesIdle
    /\ TurnstileIdle

others == <<crvars, pagevars, kvars, dvars, lvars, tvars, cvars>>

\* what the run saw at the login check and took from the cookie jar
nseen == <<n_login_url, n_captured>>

nresp == <<api_captured, n_pending>>

nsess == <<n_contexts, n_visited, nresp>>

ncounts == <<results, success_count, fail_count>>

\* move to another position, nothing else changes
NGoto(next) ==
    /\ npc' = next
    /\ UNCHANGED <<others, api_servers, n_idx, ncounts, n_notifications, n_secret_updates, n_clicks, n_started, nsess, nseen, n_exit>>

\* sys.exit(code) or an escaping exception, through finally: context.close(), browser.close()
NExit(code) ==
    /\ npc' = "exit"
    /\ \E closed \in BOOLEAN : n_exit' = IF closed THEN code ELSE 1

\* notify_telegram(ok, title, ...) followed by sys.exit(code)
NNotifyExit(ok, title, code) ==
    /\ n_notifications' = Append(n_notifications, [success |-> ok, title |-> title])
    /\ NExit(code)
    /\ UNCHANGED <<others, api_servers, n_idx, ncounts, n_secret_updates, n_clicks, n_started, nsess, nseen>>

\* the current server's outcome is recorded and the loop goes on at `next`
NRecord(st, next, next_idx) ==
    /\ results' = st.results
    /\ success_count' = st.success_count
    /\ fail_count' = st.fail_count
    /\ npc' = next
    /\ n_idx' = next_idx
    /\ UNCHANGED <<others, api_servers, n_notifications, n_secret_updates, n_started, nsess, nseen, n_exit>>

ncur == [results |-> results, success_count |-> success_count, fail_count |-> fail_count]

server_name == api_servers[n_idx + 1]

\* env_or_throw("PANEL_NA1_COOKIES")
N_Init ==
    /\ npc = "init"
    /\ \E preset \in BOOLEAN :
          IF preset
          THEN NGoto("launch")
          ELSE /\ n_notifications' = Append(n_notifications,
                                            [success |-> FALSE, title |-> "init_failed"])
               /\ npc' = "exit"
               /\ n_exit' = 1
               /\ UNCHANGED <<others, api_servers, n_idx, ncounts, n_secret_updates, n_clicks, n_started, nsess, nseen>>

\* chromium.launch: before the try block
N_Launch ==
    /\ npc = "launch"
    /\ \E launched \in BOOLEAN :
          /\ n_started' = launched
          /\ IF launched
             THEN npc' = "context" /\ n_exit' = n_exit
             ELSE npc' = "exit" /\ n_exit' = 1
          /\ UNCHANGED <<others, api_servers, n_idx, ncounts, n_notifications,
                         n_secret_updates, n_clicks, nseen, nsess>>

\* new_context, new_page, add_init_script, page.on: still before the try block
N_Context ==
    /\ npc = "context"
    /\ \E created \in BOOLEAN :
          IF created
          THEN /\ npc' = "home"
               /\ n_contexts' = n_contexts + 1
               /\ UNCHANGED <<others, api_servers, n_idx, ncounts, n_notifications,
                              n_secret_updates, n_clicks, n_started, nseen, n_visited, nresp, n_exit>>
          ELSE /\ npc' = "exit"
               /\ n_exit' = 1
               /\ UNCHANGED <<others, api_servers, n_idx, ncounts, n_notifications,
                              n_secret_updates, n_clicks, n_started, nsess, nseen>>

\* variant: only the bare login address counts as a login redirect
needs_login_exact(current_url) == current_url = <<"auth", "login">>

\* `if "/auth/login" in current_url`
needs_login(current_url) == Includes(current_url, <<"auth", "login">>)

\* cookies injected, BASE_URL visited (handle_response fills api_servers), login
\* check: page.screenshot, notify_telegram(False, <login check>, ...), sys.exit(1); a
\* screenshot that raises is reported by the except of main()
N_Home ==
    /\ npc = "home"
    /\ \E captured \in ServerLists, current_url \in PanelUrls, shot_saved \in BOOLEAN :
          /\ api_servers' = captured
          /\ n_login_url' = Includes(current_url, <<"auth", "login">>)
          /\ IF needs_login(current_url)
             THEN /\ n_notifications' = Append(n_notifications,
                                               [success |-> FALSE,
                                                title |-> IF shot_saved THEN "login_check"
                                                          ELSE "script_exception"])
                  /\ NExit(1)
                  /\ UNCHANGED <<others, n_idx, ncounts, n_secret_updates, n_clicks,
                                 n_started, nsess, n_captured>>
             ELSE /\ npc' = "dashboard_shot"
                  /\ UNCHANGED <<others, n_idx, ncounts, n_notifications, n_secret_updates,
                                 n_clicks, n_started, nsess, n_captured, n_exit>>

\* popups closed, dashboard captured, cookies saved, secret updated, server list checked
\* 4. page.screenshot of the dashboard: the call is not guarded, an exception
\* of it is reported by the except of main()
N_DashboardShot ==
    /\ npc = "dashboard_shot"
    /\ \E saved \in BOOLEAN :
          IF saved THEN NGoto("dashboard") ELSE NNotifyExit(FALSE, "script_exception", 1)

N_Dashboard ==
    /\ npc = "dashboard"
    /\ \E new_cookies \in SessionJars(<<"remember_web", "a">>, <<"XSRF-TOKEN", "2">>) :
          LET new_cookie_str == panel_save_cookies_for_update(new_cookies) IN
          /\ n_captured' = filtered(new_cookies)
          /\ n_secret_updates' = n_secret_updates
                                    + (IF CookieString(new_cookie_str) THEN 1 ELSE 0)
          /\ IF api_servers = <<>>
             THEN /\ n_notifications' = Append(n_notifications,
                                               [success |-> FALSE, title |-> "get_servers"])
                  /\ NExit(1)
             ELSE /\ npc' = "loop"
                  /\ UNCHANGED <<n_notifications, n_exit>>
          /\ UNCHANGED <<others, api_servers, n_idx, ncounts, n_clicks, n_started, nsess, n_login_url>>

\* an exception before the loop: except Exception as e
N_Raise ==
    /\ npc \in PanelRaisingStages
    /\ NNotifyExit(FALSE, "script_exception", 1)

\* for idx, server in enumerate(servers)
N_NextServer ==
    /\ npc = "loop"
    /\ n_idx < Len(api_servers)
    /\ NGoto("visit")

\* page.goto(server_url), wait, screenshot of the server page
N_Visit ==
    /\ npc = "visit"
    /\ npc' = "find"
    /\ n_visited' = Append(n_visited, n_contexts)
    /\ UNCHANGED <<others, api_servers, n_idx, ncounts, n_notifications, n_secret_updates,
                   n_clicks, n_started, nseen, n_contexts, nresp, n_exit>>

\* the two Restart selectors; their exceptions are swallowed
N_FindButton ==
    /\ npc = "find"
    /\ \E btn_found \in BOOLEAN :
          IF btn_found
          THEN NGoto("disabled_check")
          ELSE /\ NRecord(Outcome(ncur, server_name, "not_found", FALSE), "loop", n_idx + 1)
               /\ UNCHANGED n_clicks

\* restart_btn.is_disabled() and the Start fallback; an exception after the click on
\* Start is swallowed and leads to the disabled entry
N_DisabledCheck ==
    /\ npc = "disabled_check"
    /\ \E is_disabled \in BOOLEAN, start \in {"started", "not_clicked", "clicked_then_raised"} :
          IF is_disabled
          THEN /\ NRecord(start_fallback(ncur, server_name, start = "started"),
                          "loop", n_idx + 1)
               /\ n_clicks' = IF start = "not_clicked" THEN n_clicks
                              ELSE n_clicks \cup {n_idx + 1}
          ELSE NGoto("restart")

\* restart_btn.click()
N_RestartClick ==
    /\ npc = "restart"
    /\ n_clicks' = n_clicks \cup {n_idx + 1}
    /\ npc' = "restarted"
    /\ UNCHANGED <<others, api_servers, n_idx, ncounts, n_notifications, n_secret_updates,
                   n_started, nsess, nseen, n_exit>>

\* wait, screenshot, success entry
N_Restart ==
    /\ npc = "restarted"
    /\ NRecord(Outcome(ncur, server_name, "restarted", TRUE), "pause", n_idx)
    /\ UNCHANGED n_clicks

\* except PlaywrightTimeout
N_Timeout ==
    /\ npc \in ServerRaisingStages
    /\ NRecord(Outcome(ncur, server_name, "timeout", FALSE), "pause", n_idx)
    /\ UNCHANGED n_clicks

\* except Exception as e
N_Error ==
    /\ npc \in ServerRaisingStages
    /\ NRecord(Outcome(ncur, server_name, "failed", FALSE), "pause", n_idx)
    /\ UNCHANGED n_clicks

\* page.wait_for_timeout(2000) after the inner try; a raise reaches the outer handler
N_Pause ==
    /\ npc = "pause"
    /\ \E raised \in BOOLEAN :
          IF raised
          THEN NNotifyExit(FALSE, "script_exception", 1)
          ELSE /\ npc' = "loop"
               /\ n_idx' = n_idx + 1
               /\ UNCHANGED <<others, api_servers, ncounts, n_notifications, n_secret_updates, n_clicks, n_started, nsess, nseen,
                              n_exit>>

\* the report after the loop
N_Report ==
    /\ npc = "loop"
    /\ n_idx = Len(api_servers)
    /\ LET r == report(success_count, fail_count)
       IN  NNotifyExit(r.success, r.title, r.code)

PanelNext ==
    \/ N_Init \/ N_Launch \/ N_Context \/ N_Home \/ N_DashboardShot \/ N_Dashboard \/ N_Raise \/ N_NextServer
    \/ N_Visit \/ N_FindButton \/ N_DisabledCheck \/ N_RestartClick \/ N_Restart \/ N_Timeout
    \/ N_Error \/ N_Pause \/ N_Report

SpecPanel == PanelInit /\ [][PanelNext]_vars

-----------------------------------------------------------------------------
(* Panel-NA1: the response callback handle_response *)

\* responses the page may deliver while it loads
MaxApiResponses == 2

\* entries of the "data" list of one response
MaxItems == 2

\* an entry: a server with its identifier, a server without identifier
\* ("none"), or an entry whose "attributes" is null, where attrs.get raises
Items == ServerIds \cup {"none", "raise"}

\* a response: whether URL and status pass the test of line 304, and its entries
Responses == [matches : BOOLEAN, items : SeqsUpTo(Items, MaxItems)]

\* the for loop over data["data"] from entry i on: the list it leaves, and
\* whether it ran to its end
RECURSIVE append_servers(_, _, _)
append_servers(list, items, i) ==
    IF i > Len(items) THEN [servers |-> list, done |-> TRUE]
    ELSE IF items[i] = "raise" THEN [servers |-> list, done |-> FALSE]
    ELSE IF items[i] = "none" THEN append_servers(list, items, i + 1)
    ELSE append_servers(Append(list, items[i]), items, i + 1)

\* handle_response(response): api_servers and api_captured after the call
handle_response(list, captured, response) ==
    IF captured \/ ~response.matches
    THEN [servers |-> list, captured |-> captured]
    ELSE LET r == append_servers(list, response.items, 1)
         IN  [servers |-> r.servers, captured |-> r.done]

ResponsesInit ==
    /\ ClassifierIdle
    /\ KeritIdle
    /\ DataOnlineIdle
    /\ PanelQuiet
    /\ n_pending \in SeqsUpTo(Responses, MaxApiResponses)
    /\ NodelocIdle
    /\ CookiesIdle
    /\ TurnstileIdle

\* the page delivers its next response to the callback
R_Response ==
    /\ n_pending # <<>>
    /\ LET r == handle_response(api_servers, api_captured, Head(n_pending))
       IN  /\ api_servers' = r.servers
           /\ api_captured' = r.captured
    /\ n_pending' = Tail(n_pending)
    /\ UNCHANGED <<others, npc, n_idx, ncounts, n_notifications, n_secret_updates, n_clicks,
                   n_started, nseen, n_contexts, n_visited, n_exit>>

SpecResponses == ResponsesInit /\ [][R_Response]_vars

-----------------------------------------------------------------------------
(* nodeloc: main(), process_account(), do_checkin() *)

\* usernames of the account list
AccountNames == {"alice", "bob"}

\* what parse_accounts can return
AccountLists == SeqsUpTo(AccountNames, MaxAccounts)

\* text of the element a popup selector finds; <<>>: the selector timed out or the text is empty
AlertTexts ==
    { <<>>, <<"checkin_success", "points">>, <<"already_checked">>, <<"checked_in">>,
      <<"try", "later">> }

\* the popup selectors that are tried, in order
AlertLists == { <<a>> : a \in AlertTexts } \cup { <<a, b>> : a, b \in AlertTexts }

\* driver.page_source
PageSources ==
    { <<"html">>, <<"html", "checkin_success">>, <<"streak_checked">>, <<"checked_in">> }

\* a result line: marker, display name, evidence
ResultLine(marker, evidence) == <<marker, "name">> \o evidence

\* the popup loop of _get_checkin_result from selector i on, then the page source
RECURSIVE get_checkin_result(_, _, _)
get_checkin_result(alerts, i, page) ==
    IF i > Len(alerts)
    THEN IF Includes(page, <<"checkin_success">>) THEN ResultLine("[party]", <<"checkin_success">>)
         ELSE IF Includes(page, <<"streak_checked">>) \/ Includes(page, <<"checked_in">>)
              THEN ResultLine("[skip]", <<"checked_today">>)
         ELSE ResultLine("[?]", <<"state_unknown">>)
    ELSE IF alerts[i] # <<>>
         THEN IF Includes(alerts[i], <<"checkin_success">>) THEN ResultLine("[party]", alerts[i])
              ELSE IF Includes(alerts[i], <<"already_checked">>)
                      \/ Includes(alerts[i], <<"checked_in">>)
                   THEN ResultLine("[skip]", <<"checked_today">>)
              ELSE ResultLine("[warn]", alerts[i])
         ELSE get_checkin_result(alerts, i + 1, page)

\* variant: the missing button is reported as already checked in
NotFoundLineAsSkip == ResultLine("[skip]", <<"button_not_found">>)

\* the line do_checkin returns when no selector finds the button
NotFoundLine == ResultLine("[x]", <<"button_not_found">>)

\* the success test of main()
CountsAsSuccess(result) ==
    Includes(result, <<"[party]">>) \/ Includes(result, <<"[skip]">>)

\* create_browser(): uc.Chrome(...) returns the driver or raises
create_browser(started) == IF started THEN "driver" ELSE "raise"

NodelocInit ==
    /\ ClassifierIdle
    /\ KeritIdle
    /\ DataOnlineIdle
    /\ PanelIdle
    /\ lpc = "start" /\ accounts = <<>> /\ l_idx = 0 /\ l_result = <<>>
    /\ l_results = <<>> /\ l_success = 0 /\ l_fail = 0 /\ l_live = 0
    /\ l_clicks = {} /\ l_notified = 0 /\ l_exit = -1
    /\ CookiesIdle
    /\ TurnstileIdle

lrest == <<crvars, pagevars, kvars, dvars, nvars, tvars, cvars>>

lcounts == <<l_results, l_success, l_fail>>

\* move to another position, nothing else changes
LGoto(next) ==
    /\ lpc' = next
    /\ UNCHANGED <<lrest, accounts, l_idx, l_result, lcounts, l_live, l_clicks, l_notified,
                   l_exit>>

\* process_account has its return value; the rest of it is the screenshot and finally
LReturn(line, next) ==
    /\ l_result' = line
    /\ lpc' = next
    /\ UNCHANGED <<lrest, accounts, l_idx, lcounts, l_live, l_clicks, l_notified, l_exit>>

\* the process ends
LExit(code) ==
    /\ lpc' = "exit"
    /\ l_exit' = code
    /\ UNCHANGED <<lrest, accounts, l_idx, l_result, lcounts, l_live, l_clicks, l_notified>>

\* NL_ACCOUNT read and parsed
L_Start ==
    /\ lpc = "start"
    /\ \E parsed \in AccountLists :
          IF parsed = <<>>
          THEN LExit(0)
          ELSE /\ accounts' = parsed
               /\ l_idx' = 1
               /\ lpc' = "create"
               /\ UNCHANGED <<lrest, l_result, lcounts, l_live, l_clicks, l_notified, l_exit>>

\* process_account up to the driver check; create_browser is called outside the try block
L_CreateBrowser ==
    /\ lpc = "create"
    /\ \E started \in BOOLEAN :
          LET driver == create_browser(started)
          IN  IF driver = "raise"
              THEN LExit(1)
              ELSE IF driver = "none"
              THEN LReturn(<<"[x]", "account", "browser_failed">>, "record")
              ELSE /\ l_live' = l_live + 1
                   /\ lpc' = "login"
                   /\ UNCHANGED <<lrest, accounts, l_idx, l_result, lcounts, l_clicks,
                                  l_notified, l_exit>>

\* do_login: driver.get(LOGIN_URL) is outside its try block, the rest returns True or False
L_Login ==
    /\ lpc = "login"
    /\ \E outcome \in {"logged_in", "not_logged_in", "get_raises"} :
          CASE outcome = "logged_in"     -> LGoto("home")
            [] outcome = "not_logged_in" -> LReturn(<<"[x]", "account", "login_failed">>, "finish")
            [] outcome = "get_raises"    -> LReturn(<<"[x]", "account", "exception">>, "finish")

\* get_username_from_page, driver.get(BASE_URL)
L_Home ==
    /\ lpc = "home"
    /\ \E loaded \in BOOLEAN :
          IF loaded THEN LGoto("find")
          ELSE LReturn(<<"[x]", "account", "exception">>, "finish")

\* do_checkin: the selector loop and the XPath lookup
L_FindButton ==
    /\ lpc = "find"
    /\ \E found \in BOOLEAN :
          IF found THEN LGoto("click") ELSE LReturn(NotFoundLine, "shot")

\* do_checkin: checkin_btn.click()
L_Click ==
    /\ lpc = "click"
    /\ \E clicked \in BOOLEAN :
          IF clicked
          THEN /\ l_clicks' = l_clicks \cup {l_idx}
               /\ lpc' = "result"
               /\ UNCHANGED <<lrest, accounts, l_idx, l_result, lcounts, l_live, l_notified,
                              l_exit>>
          ELSE LReturn(ResultLine("[x]", <<"checkin_exception">>), "shot")

\* do_checkin: _get_checkin_result, any other exception caught by do_checkin
L_GetResult ==
    /\ lpc = "result"
    /\ \E alerts \in AlertLists, page \in PageSources, raises \in BOOLEAN :
          IF raises
          THEN LReturn(ResultLine("[x]", <<"checkin_exception">>), "shot")
          ELSE LReturn(get_checkin_result(alerts, 1, page), "shot")

\* the screenshot after the check-in; its exception is swallowed
L_Shot ==
    /\ lpc = "shot"
    /\ \E saved \in BOOLEAN : LGoto("finish")

\* variant: the finally clause leaves the driver running
driver_quit_leaked(live) == live

\* driver.quit() ends the session of the account
driver_quit(live) == live - 1

\* finally: driver.quit(), an exception of the call is swallowed
L_Finish ==
    /\ lpc = "finish"
    /\ l_live' = driver_quit(l_live)
    /\ lpc' = "record"
    /\ UNCHANGED <<lrest, accounts, l_idx, l_result, lcounts, l_clicks, l_notified, l_exit>>

\* main(): results.append(result), the counters, the next account
L_Record ==
    /\ lpc = "record"
    /\ l_results' = Append(l_results, [account |-> l_idx, line |-> l_result])
    /\ IF CountsAsSuccess(l_result)
       THEN l_success' = l_success + 1 /\ l_fail' = l_fail
       ELSE l_success' = l_success /\ l_fail' = l_fail + 1
    /\ l_result' = <<>>
    /\ IF l_idx < Len(accounts)
       THEN l_idx' = l_idx + 1 /\ lpc' = "create"
       ELSE l_idx' = l_idx /\ lpc' = "report"
    /\ UNCHANGED <<lrest, accounts, l_live, l_clicks, l_notified, l_exit>>

\* the summary and send_telegram_notification
L_Report ==
    /\ lpc = "report"
    /\ l_notified' = l_notified + 1
    /\ lpc' = "exit"
    /\ l_exit' = 0
    /\ UNCHANGED <<lrest, accounts, l_idx, l_result, lcounts, l_live, l_clicks>>

NodelocNext ==
    \/ L_Start \/ L_CreateBrowser \/ L_Login \/ L_Home \/ L_FindButton \/ L_Click
    \/ L_GetResult \/ L_Shot \/ L_Finish \/ L_Record \/ L_Report

SpecNodeloc == NodelocInit /\ [][NodelocNext]_vars

-----------------------------------------------------------------------------
(* Billing-Kerit: handle_turnstile(sb, max_attempts) *)

\* name attributes of the response inputs the Turnstile widget can put on the page
ResponseInputs == {"cf-turnstile-response"}

\* the two is_checked scripts look the response input up by these names
first_check_input == "cf-turnstile-response"
second_check_input == "cf-turnance-response"

\* `response && response.value && response.value.length > 10` for the input
\* of that name; token_set: the widget has written its token
response_checked(input_name, token_set) == input_name \in ResponseInputs /\ token_set

\* variant: range(max_attempts + 1)
attempts_left_one_more(a, max_attempts) == a <= max_attempts

\* for attempt in range(max_attempts)
attempts_left(a, max_attempts) == a < max_attempts

TurnstileInit ==
    /\ ClassifierIdle
    /\ KeritIdle
    /\ DataOnlineIdle
    /\ PanelIdle
    /\ NodelocIdle
    /\ CookiesIdle
    /\ t_pc = "loop" /\ t_max \in 0..MaxAttempts /\ attempt = 0
    /\ t_detections = 0 /\ t_clicks = 0 /\ t_clicked = FALSE
    /\ t_token = FALSE /\ t_rechecked = FALSE
    /\ t_found = FALSE /\ t_return = "none"

trest == <<crvars, pagevars, kvars, dvars, nvars, lvars, cvars>>

\* return value from inside or after the loop
TReturn(value) ==
    /\ t_return' = value
    /\ t_pc' = "done"

\* an exception inside the try: logged, then time.sleep(2) and the next attempt
TExcept ==
    /\ t_pc' = "sleep"
    /\ UNCHANGED <<t_found, t_return>>

\* the for statement: another attempt, or the range is used up and False is returned
T_Loop ==
    /\ t_pc = "loop"
    /\ IF attempts_left(attempt, t_max)
       THEN t_pc' = "detect" /\ UNCHANGED t_return
       ELSE TReturn("False")
    /\ t_clicked' = FALSE
    /\ t_rechecked' = FALSE
    /\ UNCHANGED <<trest, t_max, attempt, t_detections, t_clicks, t_token, t_found>>

\* the has_turnstile script; no challenge on the page returns True. The
\* widget may have written its token by itself when the script runs.
T_Detect ==
    /\ t_pc = "detect"
    /\ t_detections' = t_detections + 1
    /\ \E outcome \in {"raises", "absent", "present"} :
          CASE outcome = "raises"  -> TExcept
            [] outcome = "absent"  -> TReturn("True") /\ t_found' = TRUE
            [] outcome = "present" -> t_pc' = "check" /\ UNCHANGED <<t_found, t_return>>
    /\ \E written \in BOOLEAN : t_token' = (t_token \/ written)
    /\ UNCHANGED <<trest, t_max, attempt, t_clicks, t_clicked, t_rechecked>>

\* the first is_checked script: response token, checked box or success icon
T_Check ==
    /\ t_pc = "check"
    /\ \E raises \in BOOLEAN, box_or_icon \in BOOLEAN :
          IF raises THEN TExcept
          ELSE IF response_checked(first_check_input, t_token) \/ box_or_icon
               THEN TReturn("True") /\ t_found' = TRUE
               ELSE t_pc' = "click" /\ UNCHANGED <<t_found, t_return>>
    /\ UNCHANGED <<trest, t_max, attempt, t_detections, t_clicks, t_clicked, t_token,
                   t_rechecked>>

\* the click event dispatched on the iframe, then time.sleep(3)
T_Click ==
    /\ t_pc = "click"
    /\ \E raises \in BOOLEAN :
          IF raises
          THEN TExcept /\ UNCHANGED <<t_clicks, t_clicked, t_token>>
          ELSE /\ t_clicks' = t_clicks + 1
               /\ t_clicked' = TRUE
               /\ \E written \in BOOLEAN : t_token' = (t_token \/ written)
               /\ t_pc' = "recheck"
               /\ UNCHANGED <<t_found, t_return>>
    /\ UNCHANGED <<trest, t_max, attempt, t_detections, t_rechecked>>

\* the second is_checked script
T_Recheck ==
    /\ t_pc = "recheck"
    /\ \E raises \in BOOLEAN :
          /\ t_rechecked' = ~raises
          /\ IF raises THEN TExcept
             ELSE IF response_checked(second_check_input, t_token)
                  THEN TReturn("True") /\ UNCHANGED t_found
                  ELSE t_pc' = "sleep" /\ UNCHANGED <<t_found, t_return>>
    /\ UNCHANGED <<trest, t_max, attempt, t_detections, t_clicks, t_clicked, t_token>>

\* time.sleep(2) at the end of the loop body
T_Sleep ==
    /\ t_pc = "sleep"
    /\ attempt' = attempt + 1
    /\ t_pc' = "loop"
    /\ UNCHANGED <<trest, t_max, t_detections, t_clicks, t_clicked, t_token, t_rechecked,
                   t_found, t_return>>

TurnstileNext == T_Loop \/ T_Detect \/ T_Check \/ T_Click \/ T_Recheck \/ T_Sleep

SpecTurnstile == TurnstileInit /\ [][TurnstileNext]_vars

\* the function is sequential code: it takes its next step as long as it has one
FairSpecTurnstile == SpecTurnstile /\ WF_vars(TurnstileNext)

-----------------------------------------------------------------------------
(* The cookie functions applied to the cookies of a session *)

CookiesInit ==
    /\ ClassifierIdle
    /\ KeritIdle
    /\ DataOnlineIdle
    /\ PanelIdle
    /\ NodelocIdle
    /\ TurnstileIdle
    /\ ck_pc = "start"
    /\ ck_site \in {"kerit", "na1"}
    /\ ck_jar \in (IF ck_site = "kerit" THEN CookieJars(KeritNames) ELSE CookieJars(PanelNames))
    /\ ck_kept = <<>> /\ ck_string = <<>> /\ ck_parsed = <<>>

ckrest == <<crvars, pagevars, kvars, dvars, nvars, lvars, tvars>>

\* save_cookies_for_update on the cookies of the session
CK_Save ==
    /\ ck_pc = "start"
    /\ ck_kept' = IF ck_site = "kerit" THEN important_cookies(ck_jar, Len(ck_jar))
                  ELSE filtered(ck_jar)
    /\ ck_string' = IF ck_site = "kerit" THEN kerit_save_cookies_for_update(ck_jar, FALSE)
                    ELSE panel_save_cookies_for_update(ck_jar)
    /\ ck_pc' = "saved"
    /\ UNCHANGED <<ckrest, ck_site, ck_jar, ck_parsed>>

\* the next run parses the stored string
CK_Parse ==
    /\ ck_pc = "saved"
    /\ ck_parsed' = IF ck_site = "kerit" THEN parse_cookies(ck_string)
                    ELSE parse_cookie_string(ck_string)
    /\ ck_pc' = "parsed"
    /\ UNCHANGED <<ckrest, ck_site, ck_jar, ck_kept, ck_string>>

CookiesNext == CK_Save \/ CK_Parse

SpecCookies == CookiesInit /\ [][CookiesNext]_vars

-----------------------------------------------------------------------------
(* The cookie parsers on any stored string *)

\* the text between two ';' of a stored string: empty, blank, without '=',
\* with an empty name or value, padded, escaped, with a second '='
Segments ==
    { <<>>, <<" ">>, <<"a">>, <<"a", "=">>, <<"=", "b">>, <<"a", "=", "a">>,
      <<"a", "=", "b">>, <<"b", "=", "a">>, <<" ", "b", " ", "=", " ", "a", " ">>,
      <<"b", "=", "%", "3", "B">>, <<"a", "=", "b", "=", "a">> }

\* ";".join(parts)
RECURSIVE JoinSegments(_)
JoinSegments(parts) ==
    IF parts = <<>> THEN <<>>
    ELSE IF Len(parts) = 1 THEN parts[1]
    ELSE parts[1] \o <<";">> \o JoinSegments(Tail(parts))

\* the secret as the environment hands it to the script
StoredStrings == { JoinSegments(parts) : parts \in SeqsUpTo(Segments, MaxSegments) }

ParseInit ==
    /\ ClassifierIdle
    /\ KeritIdle
    /\ DataOnlineIdle
    /\ PanelIdle
    /\ NodelocIdle
    /\ TurnstileIdle
    /\ ck_pc = "given"
    /\ ck_site \in {"kerit", "na1"}
    /\ ck_string \in StoredStrings
    /\ ck_jar = <<>> /\ ck_kept = <<>> /\ ck_parsed = <<>>

\* parse_cookies(cookie_str) / parse_cookie_string(cookie_str, domain) at the start of a run
P_Parse ==
    /\ ck_pc = "given"
    /\ ck_parsed' = IF ck_site = "kerit" THEN parse_cookies(ck_string)
                    ELSE parse_cookie_string(ck_string)
    /\ ck_pc' = "read"
    /\ UNCHANGED <<ckrest, ck_site, ck_jar, ck_kept, ck_string>>

SpecParse == ParseInit /\ [][P_Parse]_vars

-----------------------------------------------------------------------------
(* Runs of one of several workflows *)

\* one of the single-shot workflows runs: nodeloc check-in or Panel-NA1 restart
SingleShotInit == NodelocInit \/ PanelInit

SingleShotNext == NodelocNext \/ PanelNext

SpecSingleShot == SingleShotInit /\ [][SingleShotNext]_vars

-----------------------------------------------------------------------------
(* Properties of check_renewal_result *)

\* the list check_renewal_result iterates over
ApiSeen == IF api_raises THEN <<>> ELSE renewApiResponses

\* a success phrase in the page text or in a toast
PageSuccessPhrase ==
    /\ ~page_raises
    /\ \/ Includes(bodyText, <<"renewed", "successfully">>)
       \/ Includes(bodyText, <<"Renewal", "successful">>)
       \/ \E i \in DOMAIN toasts :
             Includes(toasts[i], <<"success">>) /\ Includes(toasts[i], <<"renew">>)

\* a limit phrase in the page text or in a toast
PageLimitPhrase ==
    /\ ~page_raises
    /\ \/ Includes(bodyText, <<"Cannot", "exceed", "7", "days">>)
       \/ Includes(bodyText, <<"limit", "reached">>)
       \/ Includes(bodyText, <<"weekly", "limit">>)
       \/ \E i \in DOMAIN toasts :
             Includes(toasts[i], <<"Cannot", "exceed">>) \/ Includes(toasts[i], <<"exceed", "7", "days">>)

\* the outcome the page text alone stands for
PageSuggests ==
    (PageVerdict(UnknownResult, page_raises, bodyText, toasts)).status

\* the mapping of one structured response as the specification words it:
\* 2xx with the ok flag, 4xx with a limit/exceed message, other 4xx/5xx
SpecMapping(resp) ==
    IF resp.status >= 200 /\ resp.status < 300 /\ resp.ok THEN "success"
    ELSE IF resp.status >= 400 /\ resp.status < 500 /\ resp.data.isstr
            /\ Includes(Lower(resp.data.text), <<"exceed">>) THEN "limit_reached"
    ELSE IF resp.status >= 400 THEN "error"
    ELSE "unknown"

\* the mapping restricted to the statuses the code tests for: exactly 200,
\* exactly 400, any other status from 400 up
ExactMapping(resp) ==
    IF resp.status = 200 THEN "success"
    ELSE IF resp.status = 400
    THEN IF Includes(Lower(resp.data.text), <<"exceed">>) THEN "limit_reached" ELSE "error"
    ELSE IF resp.status >= 400 THEN "error"
    ELSE "unknown"

Mapped(resp) == resp.status = 200 \/ resp.status >= 400

\* a 400 whose message is not a string: message.lower() raises on it
Unreadable(resp) == resp.status = 400 /\ ~resp.data.isstr

HasMapped == \E i \in DOMAIN ApiSeen : Mapped(ApiSeen[i])

\* the most recent captured response with a mapped status
LatestMapped ==
    ApiSeen[CHOOSE i \in DOMAIN ApiSeen :
               Mapped(ApiSeen[i]) /\ \A j \in DOMAIN ApiSeen : Mapped(ApiSeen[j]) => j <= i]

\* C3: check_renewal_result returns 'success' only when a captured response has
\* status 200 and ok, or the page text or a toast carries a success phrase.
C3_NoSilentSuccess ==
    (cr_pc = "done" /\ cr_result.status = "success")
        => \/ \E i \in DOMAIN ApiSeen : ApiSeen[i].status = 200 /\ ApiSeen[i].ok
           \/ PageSuccessPhrase

\* C3 witness: success was returned on the page phrase alone, with a captured
\* response that carries no decision
C3_Witness ==
    /\ cr_pc = "done" /\ cr_result.status = "success"
    /\ ApiSeen # <<>> /\ ~HasMapped

C5_AsStated ==
    (cr_pc = "done" /\ ApiSeen # <<>>)
        => cr_result.status = SpecMapping(ApiSeen[Len(ApiSeen)])

\* C5 amended: the most recent captured response is mapped as status exactly
\* 200 -> success; status exactly 400 with a string message containing
\* "exceed" (any case) -> limit_reached; status 400 with another string
\* message, and every other status >= 400 whatever its message -> error.
C5_ExactStatusMapping ==
    (cr_pc = "done" /\ ApiSeen # <<>>) =>
        LET resp == ApiSeen[Len(ApiSeen)] IN
        /\ resp.status = 200 => cr_result.status = "success"
        /\ (resp.status = 400 /\ resp.data.isstr /\ Includes(Lower(resp.data.text), <<"exceed">>))
              => cr_result.status = "limit_reached"
        /\ (resp.status = 400 /\ resp.data.isstr /\ ~Includes(Lower(resp.data.text), <<"exceed">>))
              => cr_result.status = "error"
        /\ (resp.status >= 400 /\ resp.status # 400) => cr_result.status = "error"

\* C5 witness: status 400 with the mixed-case message "Cannot exceed 7 days"
C5_Witness ==
    /\ cr_pc = "done"
    /\ ApiSeen # <<>>
    /\ ApiSeen[Len(ApiSeen)].status = 400
    /\ ApiSeen[Len(ApiSeen)].data.text = MsgExceed
    /\ cr_result.status = "limit_reached"

\* C6: with no captured response (or a failing read of them) and no matching
\* page or toast text (or a failing read of it), the status is 'unknown'.
C6_DefaultUnknown ==
    (/\ cr_pc = "done"
     /\ ApiSeen = <<>>
     /\ ~PageSuccessPhrase
     /\ ~PageLimitPhrase)
        => cr_result.status = "unknown"

\* C6 witness: both reads raise
C6_Witness ==
    /\ cr_pc = "done" /\ api_raises /\ page_raises
    /\ cr_result.status = "unknown"

-----------------------------------------------------------------------------
(* Properties of the Billing-Kerit renewal loop *)

\* C1 as stated: a round is counted as a successful renewal only if it showed
\* positive success evidence (a 200/ok /api/renew answer or a success phrase).
C1_AsStated ==
    [][ (total_renewed' > total_renewed) => round_evidence ]_vars

\* C7 as stated: the interception is in place when the first trigger is
\* clicked, and a round whose /api/renew answer was observed is counted as
\* renewed only when that answer maps to success.
C7_AsStated ==
    /\ (renewal_round = 1 /\ trigger_clicks > 0) => interception_ready
    /\ (kpc = "close_refresh" /\ last_answer # <<>>)
          => ExactMapping(last_answer[1]) = "success"

\* C8: one run clicks the renew trigger at most max_renewals times, submits
\* the final confirm at most max_renewals times, and always reaches its exit.
C8_LoopBounded ==
    /\ [](trigger_clicks <= max_renewals /\ confirm_submits <= max_renewals)
    /\ <>(kpc = "exit")

\* C8 witness: the loop was left after max_renewals triggers and confirms
C8_Witness ==
    /\ kpc = "final"
    /\ trigger_clicks = max_renewals
    /\ confirm_submits = max_renewals

\* C9: when no round met a disabled button, a closed modal, a limit text, a
\* days value of 7 or more, or a failing browser call, the loop ran exactly 7
\* rounds, total_renewed is 7 and the run is reported as a success.
C9_SevenRounds ==
    (kpc = "exit" /\ renewal_round > 0 /\ every_round_clear)
        => /\ trigger_clicks = 7
           /\ total_renewed = 7
           /\ renewal_round = 8
           /\ notifications = << [success |-> TRUE, title |-> "renewal_succeeded"] >>
           /\ exit_code = 0

\* C9 witness: a run of seven clear rounds has ended
C9_Witness ==
    /\ kpc = "exit" /\ renewal_round > 0 /\ every_round_clear
    /\ total_renewed = 7

-----------------------------------------------------------------------------
(* Properties of the data-online run *)

\* C2: a run that ends with final status "success" and exit status 0 has typed
\* the command into the terminal and pressed Enter
C2_AsStated ==
    (dpc = "exit" /\ final_status = "success" /\ d_exit = 0)
        => (command_typed /\ enter_pressed)

-----------------------------------------------------------------------------
(* Properties of the Panel-NA1 server loop *)

\* the report of step 9 has been sent
ReportBuilt ==
    \E i \in DOMAIN n_notifications : n_notifications[i].title \in ReportTitles

-----------------------------------------------------------------------------
(* Properties of the nodeloc run *)

\* C11: a nodeloc run over a non-empty account list ends with the report sent,
\* one result line per account in input order, and success_count + fail_count
\* equal to the number of accounts
C11_AsStated ==
    (lpc = "exit" /\ accounts # <<>>)
        => /\ l_notified = 1
           /\ Len(l_results) = Len(accounts)
           /\ \A i \in DOMAIN l_results : l_results[i].account = i
           /\ l_success + l_fail = Len(accounts)

-----------------------------------------------------------------------------
(* Properties of the single-shot workflows *)

\* nodeloc: the step of do_checkin that finds no button, and the steps up to the count
NodelocNotFoundStep ==
    /\ (lpc = "find" /\ lpc' = "shot")
          => /\ l_result' = <<"[x]", "name", "button_not_found">>
             /\ l_clicks' = l_clicks
             /\ l_idx \notin l_clicks
             /\ l_exit' = -1
    /\ (lpc \in {"shot", "finish"}) => (l_exit' = -1 /\ l_clicks' = l_clicks)
    /\ (lpc = "record" /\ Includes(l_result, <<"button_not_found">>))
          => /\ l_results' = Append(l_results, [account |-> l_idx, line |-> l_result])
             /\ l_success' = l_success
             /\ l_fail' = l_fail + 1
             /\ lpc' \in {"create", "report"}
             /\ l_exit' = -1

\* Panel-NA1: the step that finds no Restart button
PanelNotFoundStep ==
    (npc = "find" /\ npc' = "loop")
        => /\ results' = Append(results, [server |-> api_servers[n_idx + 1],
                                          outcome |-> "not_found"])
           /\ success_count' = success_count
           /\ fail_count' = fail_count + 1
           /\ n_clicks' = n_clicks
           /\ (n_idx + 1) \notin n_clicks
           /\ n_idx' = n_idx + 1
           /\ n_exit' = -1

\* C12: when no selector locates the trigger control, nothing is clicked for that
\* target, the target gets a control-not-found result counted as a failure, and
\* the run goes on with the next target or the report
C12_ControlNotFound == [][NodelocNotFoundStep /\ PanelNotFoundStep]_vars

\* a nodeloc run whose first account had no check-in button and whose second checked in
C12_Witness ==
    /\ lpc = "exit" /\ l_notified = 1
    /\ Len(l_results) = 2
    /\ l_results[1].line = <<"[x]", "name", "button_not_found">>
    /\ 1 \notin l_clicks
    /\ l_results[2].line[1] = "[party]"
    /\ l_success = 1 /\ l_fail = 1

-----------------------------------------------------------------------------
(* Billing-Kerit: the renewServerBtn check before the loop *)

\* C13: when renewServerBtn is not found on the Free Plans page, the finished
\* run has sent no notification that reports success.
C13_AsStated ==
    (kpc = "exit" /\ trigger_missing)
        => \A i \in DOMAIN notifications : ~notifications[i].success

-----------------------------------------------------------------------------
(* Billing-Kerit: the checks before the renewal loop *)

\* C15: once check_page_error, check_access_blocked or check_login_status has
\* reported, the run is over with exit status 1, the renewal loop was not
\* entered and renewServerBtn was never clicked.
C15_FatalCheckEndsRun ==
    fatal_observed
        => /\ kpc = "exit"
           /\ exit_code = 1
           /\ renewal_round = 0
           /\ trigger_clicks = 0
           /\ confirm_submits = 0

\* a run stopped by check_access_blocked on the Free Plans page, after the
\* login check had passed
C15_Witness ==
    /\ fatal_observed
    /\ kpc = "exit"
    /\ session_url = <<>>
    /\ notifications = << [success |-> FALSE, title |-> "access_blocked"] >>

-----------------------------------------------------------------------------
(* Runs of Billing-Kerit or of Panel-NA1 *)

RenewalInit == KeritInit \/ PanelInit

RenewalNext == KeritNext \/ PanelNext

SpecRenewal == RenewalInit /\ [][RenewalNext]_vars

\* current_url of the session page held /login or /register
LoginPathSeen ==
    Includes(session_url, <<"login">>) \/ Includes(session_url, <<"register">>)

\* the titles get_error_notify_message gives the page errors
PageErrorTitles == { get_error_notify_title(e) : e \in PageErrors }

\* C14 as stated: a run that saw a login path reports a login failure,
\* exits with 1 and clicked no trigger.
C14_AsStated ==
    /\ (kpc = "exit" /\ LoginPathSeen)
          => /\ notifications = << [success |-> FALSE, title |-> "login_failed"] >>
             /\ exit_code = 1
             /\ trigger_clicks = 0
    /\ (npc = "exit" /\ n_login_url)
          => /\ n_notifications = << [success |-> FALSE, title |-> "login_check"] >>
             /\ n_exit = 1
             /\ n_clicks = {}

\* C14 (amended): a run that saw a login path goes no further than the login
\* check, clicks no trigger, and ends with exactly one failure notification
\* and exit status 1; the notification is the login failure unless
\* check_page_error reported first on that page (Billing-Kerit) or a
\* screenshot raised.
C14_LoginPathEndsRun ==
    /\ LoginPathSeen
          => /\ kpc \in {"session_shot", "login_check", "exit"}
             /\ trigger_clicks = 0
             /\ renewal_round = 0
    /\ (kpc = "exit" /\ LoginPathSeen)
          => /\ exit_code = 1
             /\ Len(notifications) = 1
             /\ ~notifications[1].success
             /\ notifications[1].title
                   \in {"login_failed", "execution_error"} \cup PageErrorTitles
             /\ (notifications[1].title = "login_failed" => fatal_observed)
    /\ n_login_url
          => /\ npc = "exit"
             /\ n_exit = 1
             /\ n_clicks = {}
             /\ Len(n_notifications) = 1
             /\ ~n_notifications[1].success
             /\ n_notifications[1].title \in {"login_check", "script_exception"}

\* a Panel-NA1 run whose page.url held /auth/login and that reported the login check
C14_Witness ==
    /\ npc = "exit"
    /\ n_login_url
    /\ n_notifications = << [success |-> FALSE, title |-> "login_check"] >>
    /\ n_clicks = {}

\* C16: a run that reached its exit after the browser was started has called
\* notify_telegram exactly once.
C16_AsStated ==
    /\ (kpc = "exit" /\ notifications # << [success |-> FALSE, title |-> "launch_failed"] >>)
          => Len(notifications) = 1
    /\ (npc = "exit" /\ n_started) => Len(n_notifications) = 1

-----------------------------------------------------------------------------
(* The cookie strings written to and read from the repository secret *)

\* the allow-list as documented: two exact names for Billing-Kerit; for
\* Panel-NA1 remember_web with a suffix and three exact names
AllowListed(site, name) ==
    IF site = "kerit"
    THEN name \in { <<"session_id">>, <<"cf_clearance">> }
    ELSE \/ Len(name) = 2 /\ name[1] = "remember_web"
         \/ name \in { <<"XSRF-TOKEN">>, <<"pterodactyl_session">>, <<"cf_clearance">> }

\* C18: every cookie that save_cookies_for_update puts into the string has a
\* name of the allow-list.
C18_AsStated ==
    ck_pc \in {"saved", "parsed"}
        => \A i \in DOMAIN ck_kept : AllowListed(ck_site, ck_kept[i].name)

\* the name/value pairs of the allow-listed cookies of the session; the names
\* are distinct
CredentialSet ==
    /\ \A i \in DOMAIN ck_jar : AllowListed(ck_site, ck_jar[i].name)
    /\ \A i, j \in DOMAIN ck_jar : ck_jar[i].name = ck_jar[j].name => i = j

\* C19: for a Billing-Kerit credential set, parse_cookies of the string
\* save_cookies_for_update wrote gives back the pairs of the set.
C19_AsStated ==
    (ck_site = "kerit" /\ ck_pc = "parsed" /\ CredentialSet) => ck_parsed = ck_jar

\* C20: for Panel-NA1 cookies with allow-listed, distinct names,
\* parse_cookie_string of the string save_cookies_for_update wrote gives back
\* the same name/value pairs.
C20_RoundTrip ==
    (ck_site = "na1" /\ ck_pc = "parsed" /\ CredentialSet) => ck_parsed = ck_jar

\* two cookies, one value holding the separator and one holding an escape
C20_Witness ==
    /\ ck_site = "na1" /\ ck_pc = "parsed" /\ CredentialSet
    /\ Len(ck_jar) = 2
    /\ ck_jar[1].value = <<";">>
    /\ ck_jar[2].value = <<"%", "3", "B">>
    /\ ck_string # PairStrings(ck_jar)[1] \o <<";", " ">> \o PairStrings(ck_jar)[2]
    /\ ck_parsed = ck_jar

-----------------------------------------------------------------------------
(* The cookie parsers: malformed segments and repeated names *)

\* the segments of the stored string, in order
GivenSegments == SplitOn(ck_string, ";")

\* a segment that is not empty and holds a '='
WellFormed(seg) == Strip(seg) # <<>> /\ IndexFrom(Strip(seg), "=", 1) # 0

\* the name a well-formed segment gives
SegmentName(seg) ==
    LET item == Strip(seg) IN Strip(SubSeq(item, 1, IndexFrom(item, "=", 1) - 1))

\* the value a well-formed segment gives; Panel-NA1 decodes it
SegmentValue(site, seg) ==
    LET item  == Strip(seg)
        value == Strip(SubSeq(item, IndexFrom(item, "=", 1) + 1, Len(item)))
    IN  IF site = "na1" THEN unquote(value) ELSE value

\* C21: the parsed result holds a pair for every well-formed segment of the
\* string and for no other segment.
C21_AsStated ==
    ck_pc = "read"
        => { ck_parsed[i].name : i \in DOMAIN ck_parsed }
             = { SegmentName(GivenSegments[j]) :
                    j \in { k \in DOMAIN GivenSegments : WellFormed(GivenSegments[k]) } }

\* C22: a name that well-formed segments give more than once is in the parsed
\* result exactly once, with the value of its last occurrence.
C22_AsStated ==
    ck_pc = "read"
        => \A j, k \in DOMAIN GivenSegments :
              ( /\ j < k
                /\ WellFormed(GivenSegments[j]) /\ WellFormed(GivenSegments[k])
                /\ SegmentName(GivenSegments[j]) = SegmentName(GivenSegments[k])
                /\ SegmentName(GivenSegments[k]) # <<>>
                /\ \A l \in DOMAIN GivenSegments :
                      (l > k /\ WellFormed(GivenSegments[l]))
                          => SegmentName(GivenSegments[l]) # SegmentName(GivenSegments[k]) )
              => /\ Cardinality({ i \in DOMAIN ck_parsed :
                                    ck_parsed[i].name = SegmentName(GivenSegments[k]) }) = 1
                 /\ \A i \in DOMAIN ck_parsed :
                       ck_parsed[i].name = SegmentName(GivenSegments[k])
                           => ck_parsed[i].value = SegmentValue(ck_site, GivenSegments[k])

-----------------------------------------------------------------------------
(* Billing-Kerit: handle_turnstile *)

\* what holds of handle_turnstile at every moment
TurnstileBounded ==
    /\ t_detections <= t_max
    /\ t_clicks <= t_max
    /\ t_return = "True" => (t_found /\ ~t_clicked)
    /\ t_return = "False" => (~t_found /\ attempt = t_max)
    /\ t_found => t_return = "True"
    /\ (t_pc = "done") = (t_return # "none")

\* C23: handle_turnstile returns (it has no path that raises) after at most
\* max_attempts detections and at most max_attempts clicks; it returns True in
\* the first attempt that finds the challenge absent or passed, before any
\* click of that attempt, and False exactly when no attempt found that.
C23_TurnstileBounded == []TurnstileBounded /\ <>(t_pc = "done")

\* six attempts, each with a click, and False at the end
C23_Witness ==
    /\ t_pc = "done" /\ t_return = "False"
    /\ t_max = 6 /\ t_detections = 6 /\ t_clicks = 6

-----------------------------------------------------------------------------
(* Billing-Kerit: one round of the renewal loop *)

\* C24: whatever handle_turnstile returned, the round goes on to the ad click
\* and from there to the final confirm (or to the except of main() when a
\* browser call raises), and the round is counted exactly when the page shows
\* no limit text after the confirm.
C24_ChallengeDoesNotDecide ==
    [][ /\ kpc = "turnstile" => kpc' = "ad"
        /\ kpc = "ad" => kpc' \in {"confirm", "exit"}
        /\ (kpc = "limit_check" /\ kpc' # "exit")
              => ((total_renewed' = total_renewed + 1) <=> ~LimitReachedText(bodyText))
        /\ total_renewed' # total_renewed => kpc = "limit_check" ]_vars

\* a round whose challenge was not cleared, confirmed and about to be counted
C24_Witness ==
    /\ kpc = "limit_check"
    /\ turnstile_cleared = "False"
    /\ confirm_submits = 1
    /\ ~LimitReachedText(bodyText)

\* C25: renewServerBtn is not clicked in a round that begins with the limit
\* text on the page or with 7 days or more shown.
C25_AsStated ==
    [][ (kpc = "round_head" /\ kpc' = "modal_check")
            => (~ceiling_shown /\ ~LimitReachedText(bodyText)) ]_vars

\* C26: no round begins with the modal of an earlier round open; the close
\* step ran after the confirm of every round that is followed by another.
C26_ModalClosedBetweenRounds ==
    kpc \in {"round_head", "modal_check"} => ~modal_open

\* the second round begins after a first one that opened the modal and was counted
C26_Witness ==
    /\ kpc = "round_head"
    /\ renewal_round = 2
    /\ total_renewed = 1
    /\ confirm_submits = 1
    /\ ~modal_open

\* C27: when the final renew button is looked up, no window opened by the ad
\* click is still open and the driver is on the primary window.
C27_AsStated ==
    kpc = "confirm" => (ad_left = 0 /\ focus = "main")

\* C30: a run that left the loop on the limit text with nothing renewed, and
\* in which no browser call raised afterwards, reports success and exits with 0.
C30_AsStated ==
    ( /\ kpc = "exit"
      /\ stop_reason = "limit"
      /\ total_renewed = 0
      /\ \A i \in DOMAIN notifications : notifications[i].title # "execution_error" )
        => /\ notifications # <<>>
           /\ \A i \in DOMAIN notifications : notifications[i].success
           /\ exit_code = 0

-----------------------------------------------------------------------------
(* nodeloc: the summary counters *)

\* the recorded results whose check-in outcome is unknown
UnknownLines == { i \in DOMAIN l_results : l_results[i].line[1] = "[?]" }

\* C28: a result of unknown outcome is counted neither in success_count nor
\* in fail_count: the two counters add up to the number of the other results.
C28_AsStated ==
    l_success + l_fail = Len(l_results) - Cardinality(UnknownLines)

-----------------------------------------------------------------------------
(* Panel-NA1: the exit status of the report *)

\* the aggregate outcome of a run over at least one server
Aggregate(success, fail) ==
    IF fail = 0 THEN "all_succeeded"
    ELSE IF success > 0 THEN "partial" ELSE "all_failed"

\* the run ended in the report (step 9) and left with the status of its sys.exit
Reported ==
    /\ npc = "exit"
    /\ n_notifications # <<>>
    /\ n_notifications[Len(n_notifications)].title \in ReportTitles
    /\ n_exit = report(success_count, fail_count).code

\* C29: the exit code of a reported run is not the exit code the report gives
\* to a run of another aggregate outcome.
C29_AsStated ==
    Reported =>
        \A s, f \in 0..MaxServers :
            (s + f > 0 /\ Aggregate(s, f) # Aggregate(success_count, fail_count))
                => report(s, f).code # n_exit

-----------------------------------------------------------------------------
(* nodeloc: one browser session per account *)

\* positions of process_account between create_browser() and driver.quit()
InsideSession == {"login", "home", "find", "click", "result", "shot", "finish"}

-----------------------------------------------------------------------------
(* Panel-NA1: the browser session of each server *)

\* C32: no two server pages are opened in the same browser context.
C32_AsStated ==
    \A i, j \in DOMAIN n_visited : i # j => n_visited[i] # n_visited[j]

-----------------------------------------------------------------------------
(* The four workflows: one run of any of them *)

WorkflowsInit == KeritInit \/ DataOnlineInit \/ PanelInit \/ NodelocInit

WorkflowsNext == KeritNext \/ DataOnlineNext \/ PanelNext \/ NodelocNext

SpecWorkflows == WorkflowsInit /\ [][WorkflowsNext]_vars

\* C33: the step after a capture point is the next stage of the run, whether
\* the capture call returned or raised: the session screenshot of
\* Billing-Kerit, the dashboard screenshot of Panel-NA1, the check-in
\* screenshot of nodeloc.
C33_AsStated ==
    [][ /\ kpc = "session_shot" => kpc' = "login_check"
        /\ npc = "dashboard_shot" => npc' = "dashboard"
        /\ lpc = "shot" => lpc' = "finish" ]_vars

-----------------------------------------------------------------------------
(* Termination: one run of a workflow, or one call of handle_turnstile *)

TerminationInit == WorkflowsInit \/ TurnstileInit

TerminationNext == WorkflowsNext \/ TurnstileNext

SpecTermination == TerminationInit /\ [][TerminationNext]_vars

\* the counters of the polling and retry loops stay within their ranges
LoopsBounded ==
    /\ poll_i < ChallengePolls
    /\ trigger_clicks <= max_renewals
    /\ attempt <= t_max /\ t_detections <= t_max
    /\ dpc = "wait_ready" => d_i < ReadyTimeout
    /\ dpc = "form_wait" => d_i < FormAttempts
    /\ dpc = "login_poll" => d_i < LoginPolls
    /\ n_idx <= Len(api_servers) /\ Len(n_visited) <= Len(api_servers)
    /\ Len(l_results) <= Len(accounts)

\* the process has exited, or handle_turnstile has returned
RunOver ==
    \/ kpc = "exit" \/ dpc = "exit" \/ npc = "exit" \/ lpc = "exit" \/ t_pc = "done"

\* position of a stage in the order in which main() of Billing-Kerit runs them
KeritStage(pc) ==
    CASE pc = "idle" -> 0 [] pc = "launch" -> 0 [] pc = "first_visit" -> 1
      [] pc = "challenge_wait" -> 2
      [] pc = "first_check" -> 3 [] pc = "inject" -> 4 [] pc = "session" -> 5
      [] pc = "session_shot" -> 6 [] pc = "login_check" -> 7 [] pc = "free_panel" -> 8
      [] pc = "free_blocked" -> 9 [] pc = "renew_info" -> 10
      [] pc = "round_head" -> 11 [] pc = "modal_check" -> 12 [] pc = "turnstile" -> 13
      [] pc = "ad" -> 14 [] pc = "confirm" -> 15 [] pc = "limit_check" -> 16
      [] pc = "close_refresh" -> 17
      [] pc = "final" -> 18 [] pc = "notify" -> 19 [] pc = "exit" -> 20

\* steps of Billing-Kerit taken so far, counted in stages, polls and rounds
KeritSteps ==
    KeritStage(kpc)
      + (IF kpc = "challenge_wait" THEN poll_i ELSE IF KeritStage(kpc) > 2 THEN ChallengePolls ELSE 0)
      + (IF kpc = "exit" THEN 0 ELSE 7 * renewal_round)
      + (IF kpc = "exit" THEN 7 * (max_renewals + 2) ELSE 0)

DataStage(pc) ==
    CASE pc = "idle" -> 0 [] pc = "config" -> 0 [] pc = "launch" -> 1 [] pc = "goto" -> 2
      [] pc = "wait_ready" -> 3 [] pc = "initial_shot" -> 4 + ReadyTimeout
      [] pc = "form_wait" -> 5 + ReadyTimeout
      [] pc = "login_form" -> 6 + ReadyTimeout + FormAttempts
      [] pc = "password" -> 7 + ReadyTimeout + FormAttempts
      [] pc = "submit" -> 8 + ReadyTimeout + FormAttempts
      [] pc = "login_poll" -> 9 + ReadyTimeout + FormAttempts
      [] pc = "after_login" -> 10 + ReadyTimeout + FormAttempts + LoginPolls
      [] pc = "terminal" -> 11 + ReadyTimeout + FormAttempts + LoginPolls
      [] pc = "focus" -> 12 + ReadyTimeout + FormAttempts + LoginPolls
      [] pc = "type" -> 13 + ReadyTimeout + FormAttempts + LoginPolls
      [] pc = "enter" -> 14 + ReadyTimeout + FormAttempts + LoginPolls
      [] pc = "final_shot" -> 15 + ReadyTimeout + FormAttempts + LoginPolls
      [] pc = "close" -> 16 + ReadyTimeout + FormAttempts + LoginPolls
      [] pc = "notify" -> 17 + ReadyTimeout + FormAttempts + LoginPolls
      [] pc = "exit" -> 18 + ReadyTimeout + FormAttempts + LoginPolls

\* steps of data-online: the stage and the counter of the loop it is in
DataSteps == DataStage(dpc) + d_i

PanelStage(pc) ==
    CASE pc = "idle" -> 0 [] pc = "init" -> 0 [] pc = "launch" -> 1 [] pc = "context" -> 2
      [] pc = "home" -> 3 [] pc = "dashboard_shot" -> 4 [] pc = "dashboard" -> 5
      [] pc = "loop" -> 6 [] pc = "visit" -> 7 [] pc = "find" -> 8
      [] pc = "disabled_check" -> 9 [] pc = "restart" -> 10 [] pc = "restarted" -> 11
      [] pc = "pause" -> 12
      [] pc = "exit" -> 13 + 7 * (MaxServers + 1)

\* steps of Panel-NA1: the stage and the servers done
PanelSteps == PanelStage(npc) + (IF npc = "exit" THEN 0 ELSE 7 * n_idx)

NodelocStage(pc) ==
    CASE pc = "idle" -> 0 [] pc = "start" -> 0 [] pc = "create" -> 1 [] pc = "login" -> 2
      [] pc = "home" -> 3 [] pc = "find" -> 4 [] pc = "click" -> 5 [] pc = "result" -> 6
      [] pc = "shot" -> 7 [] pc = "finish" -> 8 [] pc = "record" -> 9
      [] pc = "report" -> 10 + 9 * (MaxAccounts + 1)
      [] pc = "exit" -> 11 + 9 * (MaxAccounts + 1)

\* steps of nodeloc: the stage and the accounts done
NodelocSteps ==
    NodelocStage(lpc) + (IF lpc \in {"report", "exit"} THEN 0 ELSE 9 * l_idx)

TurnstileStage(pc) ==
    CASE pc = "idle" -> 0 [] pc = "loop" -> 0 [] pc = "detect" -> 1 [] pc = "check" -> 2
      [] pc = "click" -> 3 [] pc = "recheck" -> 4 [] pc = "sleep" -> 5
      [] pc = "done" -> 6 * (MaxAttempts + 2)

\* steps of handle_turnstile: the stage and the attempts done
TurnstileSteps == TurnstileStage(t_pc) + (IF t_pc = "done" THEN 0 ELSE 6 * attempt)

\* the progress of the run
Steps == KeritSteps + DataSteps + PanelSteps + NodelocSteps + TurnstileSteps

\* an upper bound of Steps
StepsLimit ==
    KeritStage("exit") + ChallengePolls + 7 * (max_renewals + 2)
      + DataStage("exit") + PanelStage("exit") + NodelocStage("exit") + TurnstileStage("done")

\* C34: every loop counter stays within its fixed range, every step of a run
\* raises the bounded count Steps, and a run that is not over has a next
\* step: every run reaches its exit after at most StepsLimit steps.
C34_EveryRunExits ==
    /\ [](LoopsBounded /\ Steps <= StepsLimit)
    /\ [](~RunOver => ENABLED TerminationNext)
    /\ [][Steps' > Steps]_vars

\* the challenge wait of Billing-Kerit is at its last poll
C34_Witness ==
    /\ kpc = "challenge_wait"
    /\ poll_i = ChallengePolls - 1

-----------------------------------------------------------------------------
(* The challenge wait that runs out *)

\* one run of Billing-Kerit or of data-online, the workflows with a challenge wait
WaitsInit == KeritInit \/ DataOnlineInit

WaitsNext == KeritNext \/ DataOnlineNext

SpecWaits == WaitsInit /\ [][WaitsNext]_vars

\* C35: after the last poll of the challenge wait the run is at the next
\* stage: Billing-Kerit at the page checks and from there, when they report
\* nothing, at the cookie injection; data-online at the screenshot of the
\* initial page and from there at the login-form lookup. The only other
\* successor is the exception handler of a browser call that raised.
C35_AdvanceAfterWait ==
    [][ /\ (kpc = "challenge_wait" /\ poll_i = ChallengePolls - 1)
            => \/ kpc' = "first_check" /\ notifications' = notifications
               \/ /\ kpc' = "exit"
                  /\ notifications' = Append(notifications,
                                             [success |-> FALSE, title |-> "execution_error"])
        /\ (kpc = "first_check" /\ kpc' # "exit") => kpc' = "inject"
        /\ (dpc = "wait_ready" /\ d_i = ReadyTimeout - 1)
            => dpc' = "initial_shot" /\ error_message' = error_message
        /\ (dpc = "initial_shot" /\ ~page_ready)
            => \/ dpc' = "form_wait" /\ error_message' = error_message
               \/ dpc' = "close" /\ error_message' = "exception" ]_vars

\* data-online looks for the login form although wait_for_page_ready returned False
C35_Witness ==
    /\ dpc = "form_wait"
    /\ d_i = 0
    /\ ~page_ready

-----------------------------------------------------------------------------
(* Panel-NA1: the target list *)

\* C36: the list built by handle_response holds no identifier twice, and a
\* call made after a response was captured leaves the list as it is.
C36_AsStated ==
    \A i, j \in DOMAIN api_servers : i # j => api_servers[i] # api_servers[j]

-----------------------------------------------------------------------------
(* Credential rotation comes after the login check *)

\* stages of Billing-Kerit that lie behind the login check and the page checks
BehindChecks == {"renew_info", "notify"}

\* C37: the secret is updated only at a stage behind the login check, in a
\* run in which no check reported a page error, a block or a login failure
\* and no login address was seen; a run in which one did ends with the
\* stored credential untouched.
C37_RotationAfterLogin ==
    /\ [](secret_updates > 0 => (~fatal_observed /\ session_url = <<>>))
    /\ [](n_secret_updates > 0 => ~n_login_url)
    /\ [][ /\ secret_updates' # secret_updates
                => (kpc \in BehindChecks /\ secret_updates' = secret_updates + 1)
           /\ n_secret_updates' # n_secret_updates
                => (npc = "dashboard" /\ n_secret_updates' = n_secret_updates + 1) ]_vars

\* a Billing-Kerit run that passed every check and rotated the credential
C37_Witness ==
    /\ kpc = "exit"
    /\ secret_updates = 1
    /\ k_captured # <<>>
    /\ ~fatal_observed

-----------------------------------------------------------------------------
(* Billing-Kerit: what the rotated credential holds *)

\* C38: a credential that was persisted holds a session_id entry with a
\* value that is not empty.
C38_AsStated ==
    secret_updates > 0
        => \E i \in DOMAIN k_captured :
              /\ k_captured[i].name = <<"session_id">>
              /\ k_captured[i].value # <<>>

-----------------------------------------------------------------------------
(* Billing-Kerit: what a counted round has done *)

\* C39: every round counted in total_renewed activated the final confirm
\* control: total_renewed never exceeds the number of renewBtn clicks and
\* form submits.
C39_AsStated ==
    total_renewed <= confirm_submits

-----------------------------------------------------------------------------
(* handle_turnstile: the check after the click *)

\* C40: once the second is_checked script of an attempt has returned with
\* the response token present, handle_turnstile has returned True.
C40_AsStated ==
    (t_rechecked /\ t_token) => t_return = "True"

====
